---- MODULE Spec2Model ----
(***************************************************************************)
(* Lekha: the segment editing and navigation runtime.                      *)
(*                                                                         *)
(* A text is a sequence of atoms.  An atom is either a whitespace          *)
(* character or an indivisible run of non-whitespace characters, so that   *)
(* str.split(), str.strip() and " ".join() act on it exactly as on the     *)
(* Python string it stands for.                                            *)
(***************************************************************************)
EXTENDS Integers, Sequences, FiniteSets, TLC

VARIABLES
    segments,      \* ProjectRuntime.segments: the loaded list of Segment records
    segments_by_id, \* segment id -> Segment
    orders,        \* view -> the ordered ids of that view
    parents,       \* word id -> parent line id
    edits,         \* the in-memory Edits overlay (segment id -> text)
    stored_edits,  \* edits.json as last written
    stored_master, \* master.txt as last written
    state,         \* the in-memory NavigationState
    stored_state,  \* state.json as last written (NoState when the file is absent)
    last,          \* the last operation: its arguments and what it returned
    saved_ids,     \* history: the ids a completed save has targeted
    nops,          \* how many operations have been made
    inflight,      \* the save requests being handled by the server's threads
    consensus,     \* a call of compute_word_consensus: its arguments and result
    build,         \* what the processing of the pages was given and has written
    images,        \* ImageService: the last crop asked for and what the page gave
    runtime        \* a ProjectRuntime run beside the services: its fields and what it returned

graph == <<segments, segments_by_id, orders, parents>>

\* what the operations of one runtime leave alone
aux == <<inflight, consensus, build, images, runtime>>

vars == <<graph, edits, stored_edits, stored_master, state, stored_state, last, saved_ids, nops, aux>>

(***************************************************************************)
(* Bounds.                                                                 *)
(***************************************************************************)
MaxOps == 3

MaxLineLen == 5

(***************************************************************************)
(* Strings.                                                                *)
(***************************************************************************)
Whitespace == {" ", "\t"}

SP == <<" ">>

NL == <<"\n">>

\* str.split(): cut at runs of whitespace, no empty token
RECURSIVE SplitFrom(_, _, _, _)
SplitFrom(text, i, cur, acc) ==
    IF i > Len(text)
    THEN IF cur = <<>> THEN acc ELSE Append(acc, cur)
    ELSE IF text[i] \in Whitespace
         THEN SplitFrom(text, i + 1, <<>>, IF cur = <<>> THEN acc ELSE Append(acc, cur))
         ELSE SplitFrom(text, i + 1, Append(cur, text[i]), acc)

split(text) == SplitFrom(text, 1, <<>>, <<>>)

\* sep.join(tokens)
RECURSIVE join(_, _)
join(sep, tokens) ==
    IF tokens = <<>> THEN <<>>
    ELSE IF Len(tokens) = 1 THEN tokens[1]
    ELSE tokens[1] \o sep \o join(sep, Tail(tokens))

RECURSIVE lstrip(_)
lstrip(text) ==
    IF text # <<>> /\ text[1] \in Whitespace THEN lstrip(Tail(text)) ELSE text

RECURSIVE rstrip(_)
rstrip(text) ==
    IF text # <<>> /\ text[Len(text)] \in Whitespace
    THEN rstrip(SubSeq(text, 1, Len(text) - 1))
    ELSE text

\* str.strip()
strip(text) == rstrip(lstrip(text))

(***************************************************************************)
(* Dictionaries.                                                           *)
(***************************************************************************)
\* d[k] = v
Put(d, k, v) == [x \in (DOMAIN d) \cup {k} |-> IF x = k THEN v ELSE d[x]]

\* d.get(k, default)
Get(d, k, default) == IF k \in DOMAIN d THEN d[k] ELSE default

EmptyDict == [x \in {} |-> <<>>]

(***************************************************************************)
(* Segments.  word_index is <<>> for None and <<k>> for the integer k.     *)
(***************************************************************************)
Segment(segment_id, view, page_index, line_index, word_index, consensus_text, has_conflict, word_ids) ==
    [segment_id |-> segment_id, view |-> view, page_index |-> page_index,
     line_index |-> line_index, word_index |-> word_index,
     consensus_text |-> consensus_text, has_conflict |-> has_conflict,
     word_ids |-> word_ids]

Digits == <<"0", "1", "2", "3", "4", "5", "6", "7", "8", "9">>

\* str(n) for n >= 0
RECURSIVE Decimal(_)
Decimal(n) == IF n < 10 THEN Digits[n + 1] ELSE Decimal(n \div 10) \o Digits[(n % 10) + 1]

RECURSIVE DigitCount(_)
DigitCount(n) == IF n < 10 THEN 1 ELSE 1 + DigitCount(n \div 10)

RECURSIVE Zeros(_)
Zeros(k) == IF k <= 0 THEN "" ELSE "0" \o Zeros(k - 1)

\* f"{n:0{width}d}"
ZeroPad(n, width) == Zeros(width - DigitCount(n)) \o Decimal(n)

\* processing._segment_id; word_index is <<>> for None
_segment_id(page_index, line_index, word_index, view) ==
    IF view = "line"
    THEN "p" \o ZeroPad(page_index, 3) \o "_l" \o ZeroPad(line_index, 4)
    ELSE "p" \o ZeroPad(page_index, 3) \o "_l" \o ZeroPad(line_index, 4)
         \o "_w" \o ZeroPad(IF word_index = <<>> THEN 0 ELSE word_index[1], 4)

\* {segment.segment_id: segment for segment in self.segments}: the last one wins
index_segments(segs) ==
    [id \in {segs[i].segment_id : i \in 1..Len(segs)} |->
        LET hits == {i \in 1..Len(segs) : segs[i].segment_id = id}
            top == CHOOSE i \in hits : \A j \in hits : j <= i
        IN segs[top]]

\* the ids of the loaded segments
SegmentIds == DOMAIN segments_by_id

\* the sort key of _ordered_ids
OrderKey(seg) ==
    <<seg.page_index, seg.line_index,
      IF seg.word_index # <<>> THEN seg.word_index[1] ELSE -1>>

KeyLess(a, b) ==
    \/ a[1] < b[1]
    \/ a[1] = b[1] /\ a[2] < b[2]
    \/ a[1] = b[1] /\ a[2] = b[2] /\ a[3] < b[3]

\* list.sort(key=...) is stable: x goes after every element whose key is not greater
RECURSIVE InsertByKey(_, _)
InsertByKey(sorted, x) ==
    IF sorted = <<>> THEN <<x>>
    ELSE IF KeyLess(OrderKey(x), OrderKey(sorted[1]))
         THEN <<x>> \o sorted
         ELSE <<sorted[1]>> \o InsertByKey(Tail(sorted), x)

RECURSIVE SortByKey(_)
SortByKey(segs) ==
    IF segs = <<>> THEN <<>>
    ELSE InsertByKey(SortByKey(SubSeq(segs, 1, Len(segs) - 1)), segs[Len(segs)])

RECURSIVE FilterView(_, _)
FilterView(segs, view) ==
    IF segs = <<>> THEN <<>>
    ELSE (IF segs[1].view = view THEN <<segs[1]>> ELSE <<>>) \o FilterView(Tail(segs), view)

_ordered_ids(segs, view) ==
    LET filtered == SortByKey(FilterView(segs, view))
    IN [i \in 1..Len(filtered) |-> filtered[i].segment_id]

\* self.orders.get(view, [])
orders_get(view) == IF view \in {"line", "word"} THEN orders[view] ELSE <<>>

InSeq(x, seq) == \E i \in 1..Len(seq) : seq[i] = x

\* word id -> parent line id; a later line segment overwrites an earlier one
index_parents(segs) ==
    LET owners(w) == {i \in 1..Len(segs) :
                        segs[i].view = "line" /\ InSeq(w, segs[i].word_ids)}
        children == UNION {{segs[i].word_ids[k] : k \in 1..Len(segs[i].word_ids)} :
                            i \in {j \in 1..Len(segs) : segs[j].view = "line"}}
    IN [w \in children |->
            segs[CHOOSE i \in owners(w) : \A j \in owners(w) : j <= i].segment_id]

(***************************************************************************)
(* SegmentEditor / ProjectRuntime: editing.  An operation that can raise   *)
(* KeyError returns a record with the flag raised; the edits it made       *)
(* before raising stay made.                                               *)
(***************************************************************************)
Padding(k) == [i \in 1..k |-> <<>>]

\* LineTokens with the surplus tokens dropped instead of joined into the last child
LineTokens_dropping_surplus(text, n) ==
    LET tokens0 == split(text)
        tokens1 == IF tokens0 = <<>> THEN Padding(n) ELSE tokens0
    IN IF Len(tokens1) < n
       THEN tokens1 \o Padding(n - Len(tokens1))
       ELSE SubSeq(tokens1, 1, n)

\* the per-child tokens _save_line assigns for n children
LineTokens(text, n) ==
    LET tokens0 == split(text)
        tokens1 == IF tokens0 = <<>> THEN Padding(n) ELSE tokens0
    IN IF Len(tokens1) < n
       THEN tokens1 \o Padding(n - Len(tokens1))
       ELSE IF Len(tokens1) > n
            THEN SubSeq(tokens1, 1, n - 1) \o <<join(SP, SubSeq(tokens1, n, Len(tokens1)))>>
            ELSE tokens1

\* for word_id, token in zip(word_ids, tokens): self.edits[word_id] = token
RECURSIVE ZipAssign(_, _, _)
ZipAssign(e, word_ids, tokens) ==
    IF word_ids = <<>> \/ tokens = <<>> THEN e
    ELSE ZipAssign(Put(e, word_ids[1], tokens[1]), Tail(word_ids), Tail(tokens))

\* _save_line storing the re-tokenized text for the line itself
_save_line_retokenized(e, line_id, text) ==
    IF line_id \notin SegmentIds
    THEN [raised |-> TRUE, edits |-> e]
    ELSE LET word_ids == segments_by_id[line_id].word_ids
             e1 == IF word_ids # <<>>
                   THEN ZipAssign(e, word_ids, LineTokens(text, Len(word_ids)))
                   ELSE e
         IN [raised |-> FALSE, edits |-> Put(e1, line_id, join(SP, split(text)))]

_save_line(e, line_id, text) ==
    IF line_id \notin SegmentIds
    THEN [raised |-> TRUE, edits |-> e]
    ELSE LET word_ids == segments_by_id[line_id].word_ids
             e1 == IF word_ids # <<>>
                   THEN ZipAssign(e, word_ids, LineTokens(text, Len(word_ids)))
                   ELSE e
         IN [raised |-> FALSE, edits |-> Put(e1, line_id, text)]

\* [self.edits.get(word_id, self.segments_by_id[word_id].consensus_text) ...]:
\* the default is evaluated first, so an id that is no segment raises
ChildTokens(e, word_ids) ==
    [i \in 1..Len(word_ids) |->
        IF word_ids[i] \in SegmentIds
        THEN Get(e, word_ids[i], segments_by_id[word_ids[i]].consensus_text)
        ELSE <<>>]

_recalculate_line_from_word(e, line_index, page_index) ==
    LET line_id == _segment_id(page_index, line_index, <<>>, "line")
    IN IF line_id \notin SegmentIds
       THEN [raised |-> FALSE, edits |-> e]
       ELSE LET word_ids == segments_by_id[line_id].word_ids
            IN IF \E i \in 1..Len(word_ids) : word_ids[i] \notin SegmentIds
               THEN [raised |-> TRUE, edits |-> e]
               ELSE [raised |-> FALSE,
                     edits |-> Put(e, line_id, strip(join(SP, ChildTokens(e, word_ids))))]

\* _save_word writing the edit before it looks the segment up
_save_word_writing_first(e, word_id, text) ==
    IF word_id \notin SegmentIds
    THEN [raised |-> TRUE, edits |-> Put(e, word_id, text)]
    ELSE LET word_segment == segments_by_id[word_id]
             e1 == Put(e, word_id, text)
         IN IF word_id \in DOMAIN parents /\ parents[word_id] # ""
            THEN LET parent_line_id == parents[word_id]
                     word_ids == segments_by_id[parent_line_id].word_ids
                 IN [raised |-> FALSE,
                     edits |-> Put(e1, parent_line_id, strip(join(SP, ChildTokens(e1, word_ids))))]
            ELSE _recalculate_line_from_word(e1, word_segment.line_index, word_segment.page_index)

\* _save_word writing the word and nothing else
_save_word_leaving_parent(e, word_id, text) ==
    IF word_id \notin SegmentIds
    THEN [raised |-> TRUE, edits |-> e]
    ELSE [raised |-> FALSE, edits |-> Put(e, word_id, text)]

\* _save_word composing the parent from the edits as they were before the save
_save_word_from_stale_edits(e, word_id, text) ==
    IF word_id \notin SegmentIds
    THEN [raised |-> TRUE, edits |-> e]
    ELSE LET word_segment == segments_by_id[word_id]
             e1 == Put(e, word_id, text)
         IN IF word_id \in DOMAIN parents /\ parents[word_id] # ""
            THEN LET parent_line_id == parents[word_id]
                     word_ids == segments_by_id[parent_line_id].word_ids
                 IN [raised |-> FALSE,
                     edits |-> Put(e1, parent_line_id, strip(join(SP, ChildTokens(e, word_ids))))]
            ELSE _recalculate_line_from_word(e1, word_segment.line_index, word_segment.page_index)

_save_word(e, word_id, text) ==
    IF word_id \notin SegmentIds
    THEN [raised |-> TRUE, edits |-> e]
    ELSE LET word_segment == segments_by_id[word_id]
             e1 == Put(e, word_id, text)
         IN IF word_id \in DOMAIN parents /\ parents[word_id] # ""
            THEN LET parent_line_id == parents[word_id]
                     word_ids == segments_by_id[parent_line_id].word_ids
                     tokens == [i \in 1..Len(word_ids) |->
                                   IF word_ids[i] = word_id THEN text
                                   ELSE ChildTokens(e1, word_ids)[i]]
                 IN IF \E i \in 1..Len(word_ids) :
                          word_ids[i] # word_id /\ word_ids[i] \notin SegmentIds
                    THEN [raised |-> TRUE, edits |-> e1]
                    ELSE [raised |-> FALSE,
                          edits |-> Put(e1, parent_line_id, strip(join(SP, tokens)))]
            ELSE _recalculate_line_from_word(e1, word_segment.line_index, word_segment.page_index)

\* get_text reading a segment without an edit from its consensus text alone
get_text_ignoring_children(e, segment_id) ==
    IF segment_id \in DOMAIN e
    THEN [raised |-> FALSE, value |-> e[segment_id]]
    ELSE IF segment_id \notin SegmentIds
    THEN [raised |-> TRUE, value |-> <<>>]
    ELSE [raised |-> FALSE, value |-> segments_by_id[segment_id].consensus_text]

\* get_text: [raised, value]
RECURSIVE get_text(_, _)
get_text(e, segment_id) ==
    IF segment_id \in DOMAIN e
    THEN [raised |-> FALSE, value |-> e[segment_id]]
    ELSE IF segment_id \notin SegmentIds
    THEN [raised |-> TRUE, value |-> <<>>]
    ELSE LET segment == segments_by_id[segment_id]
         IN IF segment.view = "line" /\ segment.word_ids # <<>>
            THEN LET got == [i \in 1..Len(segment.word_ids) |-> get_text(e, segment.word_ids[i])]
                     text == strip(join(SP, [i \in 1..Len(got) |-> got[i].value]))
                 IN IF \E i \in 1..Len(got) : got[i].raised
                    THEN [raised |-> TRUE, value |-> <<>>]
                    ELSE [raised |-> FALSE,
                          value |-> IF text # <<>> THEN text ELSE segment.consensus_text]
            ELSE [raised |-> FALSE, value |-> segment.consensus_text]

\* compose_master_text reading each line's edit, else its consensus text
compose_master_text_without_words(e) ==
    [raised |-> FALSE,
     value |-> join(NL, [i \in 1..Len(orders["line"]) |->
                  Get(e, orders["line"][i], segments_by_id[orders["line"][i]].consensus_text)])]

\* compose_master_text: [raised, value]
compose_master_text(e) ==
    LET got == [i \in 1..Len(orders["line"]) |-> get_text(e, orders["line"][i])]
    IN [raised |-> \E i \in 1..Len(got) : got[i].raised,
        value |-> join(NL, [i \in 1..Len(got) |-> got[i].value])]

\* save, up to _persist: the edits after _save_line or _save_word
save(e, segment_id, view, text) ==
    IF view = "line" THEN _save_line(e, segment_id, text) ELSE _save_word(e, segment_id, text)

(***************************************************************************)
(* SegmentNavigator / ProjectRuntime: navigation.  An index is 0-based as  *)
(* in the source; None is <<>> and a found id is <<id>>.                   *)
(***************************************************************************)
\* order.index(x), or <<>> where it raises ValueError
index_of(order, x) ==
    IF InSeq(x, order)
    THEN <<(CHOOSE i \in 1..Len(order) : order[i] = x /\ \A j \in 1..(i - 1) : order[j] # x) - 1>>
    ELSE <<>>

Max(a, b) == IF a >= b THEN a ELSE b

Min(a, b) == IF a <= b THEN a ELSE b

\* ScanIssue counting an edit equal to the consensus text as unresolved
RECURSIVE ScanIssue_unless_changed(_, _, _)
ScanIssue_unless_changed(e, order, idx) ==
    IF idx >= Len(order) THEN <<>>
    ELSE LET seg_id == order[idx + 1]
         IN IF /\ segments_by_id[seg_id].has_conflict
               /\ (seg_id \notin DOMAIN e \/ e[seg_id] = segments_by_id[seg_id].consensus_text)
            THEN <<seg_id>>
            ELSE ScanIssue_unless_changed(e, order, idx + 1)

\* ScanIssue taking every conflicted segment, edited or not
RECURSIVE ScanIssue_ignoring_edits(_, _, _)
ScanIssue_ignoring_edits(e, order, idx) ==
    IF idx >= Len(order) THEN <<>>
    ELSE LET seg_id == order[idx + 1]
         IN IF segments_by_id[seg_id].has_conflict
            THEN <<seg_id>>
            ELSE ScanIssue_ignoring_edits(e, order, idx + 1)

\* for idx in range(idx, length): the first unresolved conflict
RECURSIVE ScanIssue(_, _, _)
ScanIssue(e, order, idx) ==
    IF idx >= Len(order) THEN <<>>
    ELSE LET seg_id == order[idx + 1]
         IN IF segments_by_id[seg_id].has_conflict /\ seg_id \notin DOMAIN e
            THEN <<seg_id>>
            ELSE ScanIssue(e, order, idx + 1)

\* _next_issue scanning from the current index itself
_next_issue_from_current(e, view, start_index) ==
    LET order == orders_get(view)
    IN IF Len(order) = 0 THEN <<>>
       ELSE ScanIssue(e, order, Max(start_index, 0))

_next_issue(e, view, start_index) ==
    LET order == orders_get(view)
    IN IF Len(order) = 0 THEN <<>>
       ELSE ScanIssue(e, order, Max(start_index + 1, 0))

\* navigate wrapping around at the ends of the order
navigate_wrapping(e, view, current_id, action) ==
    LET order == orders_get(view)
        found == index_of(order, current_id)
        index == IF found # <<>> THEN found[1] ELSE 0
    IN IF order = <<>> THEN current_id
       ELSE IF action = "prev" THEN order[((index - 1) % Len(order)) + 1]
       ELSE IF action = "next" THEN order[((index + 1) % Len(order)) + 1]
       ELSE IF action = "next_issue"
            THEN LET next_issue_id == _next_issue(e, view, index)
                 IN IF next_issue_id # <<>> /\ next_issue_id[1] # ""
                    THEN next_issue_id[1]
                    ELSE current_id
       ELSE order[index + 1]

navigate(e, view, current_id, action) ==
    LET order == orders_get(view)
        found == index_of(order, current_id)
        index == IF found # <<>> THEN found[1] ELSE 0
    IN IF order = <<>> THEN current_id
       ELSE IF action = "prev" THEN order[Max(index - 1, 0) + 1]
       ELSE IF action = "next" THEN order[Min(index + 1, Len(order) - 1) + 1]
       ELSE IF action = "next_issue"
            THEN LET next_issue_id == _next_issue(e, view, index)
                 IN IF next_issue_id # <<>> /\ next_issue_id[1] # ""
                    THEN next_issue_id[1]
                    ELSE current_id
       ELSE order[index + 1]

\* switch_view going to the first line from any word, without the parent map
switch_view_forgetting_parent(current_segment, target_view) ==
    LET known == current_segment \in SegmentIds
        segment == segments_by_id[current_segment]
        derived ==
            IF target_view = "line"
            THEN IF known /\ segment.view = "line" THEN current_segment ELSE ""
            ELSE IF known /\ segment.view = "word" THEN current_segment
                 ELSE IF known /\ segment.view = "line" /\ segment.word_ids # <<>>
                      THEN segment.word_ids[1]
                      ELSE ""
        fallback == IF target_view = "line" THEN orders["line"] ELSE orders["word"]
        target == IF derived = "" /\ fallback # <<>> THEN fallback[1] ELSE derived
    IN IF target = "" THEN current_segment ELSE target

\* switch_view without the fallback to the first id of the target order
switch_view_without_fallback(current_segment, target_view) ==
    LET known == current_segment \in SegmentIds
        segment == segments_by_id[current_segment]
        target ==
            IF target_view = "line"
            THEN IF known /\ segment.view = "line" THEN current_segment
                 ELSE IF known /\ segment.view = "word"
                      THEN Get(parents, current_segment, "")
                      ELSE ""
            ELSE IF known /\ segment.view = "word" THEN current_segment
                 ELSE IF known /\ segment.view = "line" /\ segment.word_ids # <<>>
                      THEN segment.word_ids[1]
                      ELSE ""
    IN IF target = "" THEN current_segment ELSE target

\* the id switch_view returns
switch_view(current_segment, target_view) ==
    LET known == current_segment \in SegmentIds
        segment == segments_by_id[current_segment]
        derived ==
            IF target_view = "line"
            THEN IF known /\ segment.view = "line" THEN current_segment
                 ELSE IF known /\ segment.view = "word"
                      THEN Get(parents, current_segment, "")
                      ELSE ""
            ELSE IF known /\ segment.view = "word" THEN current_segment
                 ELSE IF known /\ segment.view = "line" /\ segment.word_ids # <<>>
                      THEN segment.word_ids[1]
                      ELSE ""
        fallback == IF target_view = "line" THEN orders["line"] ELSE orders["word"]
        target == IF derived = "" /\ fallback # <<>> THEN fallback[1] ELSE derived
    IN IF target = "" THEN current_segment ELSE target

\* navigation_status(segment_id, view)["has_next_issue"]
has_next_issue(e, segment_id, view) ==
    LET order == orders_get(view)
        found == index_of(order, segment_id)
    IN IF view \notin {"line", "word"} \/ order = <<>> \/ found = <<>> THEN FALSE
       ELSE _next_issue(e, view, found[1]) # <<>>

Status(can_prev, can_next, has_issue) ==
    [can_prev |-> can_prev, can_next |-> can_next, has_next_issue |-> has_issue]

\* {"can_prev": False, "can_next": False, "has_next_issue": False}
NoStatus == Status(FALSE, FALSE, FALSE)

\* navigation_status scanning for the next issue from the current segment itself
navigation_status_counting_current(e, segment_id, view) ==
    LET order == orders_get(view)
        found == index_of(order, segment_id)
    IN IF view \notin {"line", "word"} \/ order = <<>> \/ found = <<>> THEN NoStatus
       ELSE Status(found[1] > 0, found[1] < Len(order) - 1,
                   _next_issue(e, view, found[1] - 1) # <<>>)

navigation_status(e, segment_id, view) ==
    LET order == orders_get(view)
        found == index_of(order, segment_id)
    IN IF view \notin {"line", "word"} \/ order = <<>> \/ found = <<>> THEN NoStatus
       ELSE Status(found[1] > 0, found[1] < Len(order) - 1,
                   _next_issue(e, view, found[1]) # <<>>)

\* segment_payload(segment_id)["has_conflict"], for a known segment
payload_has_conflict(e, segment_id) ==
    segments_by_id[segment_id].has_conflict /\ ~(segment_id \in DOMAIN e)

(***************************************************************************)
(* NavigationState.  NoState is the empty dict read_state returns when     *)
(* state.json does not exist.                                              *)
(***************************************************************************)
NoState == [x \in {} |-> ""]

NavState(view, segment_id) == [view |-> view, segment_id |-> segment_id]

\* ensure_state: the state it leaves in memory and on disk
ensure_state(st, stored) ==
    LET default_view == IF orders["line"] # <<>> THEN "line" ELSE "word"
        default_segment == IF orders[default_view] # <<>> THEN orders[default_view][1] ELSE ""
        s1 == IF st = NoState THEN NavState(default_view, default_segment) ELSE st
        w1 == IF st = NoState THEN s1 ELSE stored
        s2 == IF s1.view \notin {"line", "word"} THEN NavState(default_view, s1.segment_id) ELSE s1
        fix == s2.segment_id \notin SegmentIds /\ default_segment # ""
        s3 == IF fix THEN NavState(s2.view, default_segment) ELSE s2
        w3 == IF fix THEN s3 ELSE w1
    IN [state |-> s3, stored_state |-> w3]

(***************************************************************************)
(* diffing: the word consensus.  A token is a text; a list of tokens is a  *)
(* sequence of texts.  A dict that is iterated (model_texts, alternatives) *)
(* is the sequence of its items in insertion order.  Indices are 0-based   *)
(* as in the source.                                                       *)
(***************************************************************************)
BaseToken(text, line_index, word_index) ==
    [text |-> text, line_index |-> line_index, word_index |-> word_index]

WordConsensus(base, line_index, word_index, alternatives) ==
    [base |-> base, line_index |-> line_index, word_index |-> word_index,
     alternatives |-> alternatives]

\* model_name in entry.alternatives
AltHas(alternatives, model_name) ==
    \E k \in 1..Len(alternatives) : alternatives[k].model = model_name

\* entry.alternatives[model_name]
AltGet(alternatives, model_name) ==
    alternatives[CHOOSE k \in 1..Len(alternatives) : alternatives[k].model = model_name].text

\* entry.alternatives[model_name] = text: a new key goes last, a key keeps its place
AltSet(entry, model_name, text) ==
    [entry EXCEPT !.alternatives =
        IF AltHas(@, model_name)
        THEN [k \in 1..Len(@) |-> IF @[k].model = model_name
                                  THEN [model |-> model_name, text |-> text] ELSE @[k]]
        ELSE Append(@, [model |-> model_name, text |-> text])]

\* has_conflict counting an empty alternative as a difference
has_conflict_counting_empty(entry) ==
    \E k \in 1..Len(entry.alternatives) : entry.alternatives[k].text # entry.base

\* WordConsensus.has_conflict
has_conflict(entry) ==
    \E k \in 1..Len(entry.alternatives) :
        entry.alternatives[k].text # <<>> /\ entry.alternatives[k].text # entry.base

\* the list alts of display_text after the alternatives up to k were looked at
RECURSIVE DisplayAlts(_, _)
DisplayAlts(entry, k) ==
    IF k = 0 THEN <<entry.base>>
    ELSE LET alts == DisplayAlts(entry, k - 1)
             alt == entry.alternatives[k].text
         IN IF alt # <<>> /\ ~InSeq(alt, alts) THEN Append(alts, alt) ELSE alts

\* the list unique of display_text: alts without repetitions
RECURSIVE Unique(_)
Unique(alts) ==
    IF alts = <<>> THEN <<>>
    ELSE LET rest == Unique(SubSeq(alts, 1, Len(alts) - 1))
         IN IF InSeq(alts[Len(alts)], rest) THEN rest ELSE Append(rest, alts[Len(alts)])

\* WordConsensus.display_text
display_text(entry) ==
    LET unique == Unique(DisplayAlts(entry, Len(entry.alternatives)))
    IN IF Len(unique) <= 1
       THEN IF unique # <<>> THEN unique[1] ELSE entry.base
       ELSE <<"[">> \o join(<<"/">>, unique) \o <<"]">>

\* tokenize that does not split
tokenize_whole(text) == <<text>>

tokenize(text) == split(text)

\* SequenceMatcher.find_longest_match without junk: among the longest common
\* blocks of a[alo:ahi] and b[blo:bhi] the one that starts earliest in a, and
\* of those the one that starts earliest in b; <<i, j, k>>
find_longest_match(a, b, alo, ahi, blo, bhi) ==
    LET matches == {m \in (alo..(ahi - 1)) \X (blo..(bhi - 1)) \X (1..Min(ahi - alo, bhi - blo)) :
                       /\ m[1] + m[3] <= ahi
                       /\ m[2] + m[3] <= bhi
                       /\ \A o \in 1..m[3] : a[m[1] + o] = b[m[2] + o]}
    IN IF matches = {} THEN <<alo, blo, 0>>
       ELSE CHOOSE m \in matches :
               \A n \in matches :
                   \/ n[3] < m[3]
                   \/ n[3] = m[3] /\ m[1] < n[1]
                   \/ n[3] = m[3] /\ m[1] = n[1] /\ m[2] <= n[2]

\* get_matching_blocks: the longest match, then the same to its left and right
RECURSIVE MatchingBlocks(_, _, _, _, _, _)
MatchingBlocks(a, b, alo, ahi, blo, bhi) ==
    LET m == find_longest_match(a, b, alo, ahi, blo, bhi)
    IN IF m[3] = 0 THEN <<>>
       ELSE MatchingBlocks(a, b, alo, m[1], blo, m[2])
            \o <<m>>
            \o MatchingBlocks(a, b, m[1] + m[3], ahi, m[2] + m[3], bhi)

\* get_matching_blocks: adjacent blocks are made one
RECURSIVE CollapseBlocks(_)
CollapseBlocks(blocks) ==
    IF Len(blocks) <= 1 THEN blocks
    ELSE LET front == CollapseBlocks(SubSeq(blocks, 1, Len(blocks) - 1))
             prev == front[Len(front)]
             cur == blocks[Len(blocks)]
         IN IF prev[1] + prev[3] = cur[1] /\ prev[2] + prev[3] = cur[2]
            THEN SubSeq(front, 1, Len(front) - 1) \o <<<<prev[1], prev[2], prev[3] + cur[3]>>>>
            ELSE Append(front, cur)

get_matching_blocks(a, b) ==
    Append(CollapseBlocks(MatchingBlocks(a, b, 0, Len(a), 0, Len(b))), <<Len(a), Len(b), 0>>)

Opcode(tag, i1, i2, j1, j2) == [tag |-> tag, i1 |-> i1, i2 |-> i2, j1 |-> j1, j2 |-> j2]

\* get_opcodes: what lies between the matching blocks, and the blocks
RECURSIVE OpcodesFrom(_, _, _)
OpcodesFrom(blocks, i, j) ==
    IF blocks = <<>> THEN <<>>
    ELSE LET ai == blocks[1][1]
             bj == blocks[1][2]
             size == blocks[1][3]
             gap == IF i < ai /\ j < bj THEN <<Opcode("replace", i, ai, j, bj)>>
                    ELSE IF i < ai THEN <<Opcode("delete", i, ai, j, bj)>>
                    ELSE IF j < bj THEN <<Opcode("insert", i, ai, j, bj)>>
                    ELSE <<>>
             equal == IF size > 0 THEN <<Opcode("equal", ai, ai + size, bj, bj + size)>> ELSE <<>>
         IN gap \o equal \o OpcodesFrom(Tail(blocks), ai + size, bj + size)

\* SequenceMatcher(None, a, b, autojunk=False).get_opcodes()
get_opcodes(a, b) == OpcodesFrom(get_matching_blocks(a, b), 0, 0)

\* tokens[lo:hi]
Slice(tokens, lo, hi) == SubSeq(tokens, lo + 1, hi)

\* _append_alternative replacing what the model already has for the entry
_append_alternative_overwriting(entry, model_name, text) ==
    IF text = <<>> THEN entry ELSE AltSet(entry, model_name, text)

_append_alternative(entry, model_name, text) ==
    IF text = <<>> THEN entry
    ELSE IF AltHas(entry.alternatives, model_name) /\ AltGet(entry.alternatives, model_name) # <<>>
    THEN AltSet(entry, model_name, join(SP, <<AltGet(entry.alternatives, model_name), text>>))
    ELSE AltSet(entry, model_name, text)

\* the replace branch
ApplyReplace(cons, model_name, tokens, op) ==
    LET span == Min(op.i2 - op.i1, op.j2 - op.j1)
        c1 == [k \in 1..Len(cons) |->
                  IF op.i1 <= k - 1 /\ k - 1 < op.i1 + span
                  THEN AltSet(cons[k], model_name, tokens[op.j1 + (k - 1 - op.i1) + 1])
                  ELSE cons[k]]
        c2 == IF (op.j2 - op.j1) > span /\ op.i2 - 1 >= op.i1
              THEN [c1 EXCEPT ![Max(op.i1, op.i2 - 1) + 1] =
                       _append_alternative(@, model_name,
                                           join(SP, Slice(tokens, op.j1 + span, op.j2)))]
              ELSE c1
    IN IF (op.i2 - op.i1) > span
       THEN [k \in 1..Len(c2) |->
                IF op.i1 + span <= k - 1 /\ k - 1 < op.i2
                THEN AltSet(c2[k], model_name, <<>>) ELSE c2[k]]
       ELSE c2

\* the delete branch
ApplyDelete(cons, model_name, op) ==
    [k \in 1..Len(cons) |->
        IF op.i1 <= k - 1 /\ k - 1 < op.i2 THEN AltSet(cons[k], model_name, <<>>) ELSE cons[k]]

\* the insert branch attaching the tokens to the entry after the insertion point
ApplyInsert_to_following(cons, model_name, tokens, op) ==
    IF cons = <<>> THEN cons
    ELSE [cons EXCEPT ![Min(op.i1, Len(cons) - 1) + 1] =
             _append_alternative(@, model_name, join(SP, Slice(tokens, op.j1, op.j2)))]

\* the insert branch
ApplyInsert(cons, model_name, tokens, op) ==
    IF cons = <<>> THEN cons
    ELSE [cons EXCEPT ![Max(op.i1 - 1, 0) + 1] =
             _append_alternative(@, model_name, join(SP, Slice(tokens, op.j1, op.j2)))]

\* for tag, i1, i2, j1, j2 in matcher.get_opcodes()
RECURSIVE ApplyOpcodes(_, _, _, _)
ApplyOpcodes(cons, model_name, tokens, ops) ==
    IF ops = <<>> THEN cons
    ELSE LET op == ops[1]
             next == IF op.tag = "replace" THEN ApplyReplace(cons, model_name, tokens, op)
                     ELSE IF op.tag = "delete" THEN ApplyDelete(cons, model_name, op)
                     ELSE IF op.tag = "insert" THEN ApplyInsert(cons, model_name, tokens, op)
                     ELSE cons
         IN ApplyOpcodes(next, model_name, tokens, Tail(ops))

\* for model_name, text in model_texts.items()
RECURSIVE ApplyModels(_, _, _)
ApplyModels(cons, base_words, model_texts) ==
    IF model_texts = <<>> THEN cons
    ELSE LET text == model_texts[1].text
             tokens == tokenize(text)
             next == IF text = <<>> THEN cons
                     ELSE ApplyOpcodes(cons, model_texts[1].model, tokens,
                                       get_opcodes(base_words, tokens))
         IN ApplyModels(next, base_words, Tail(model_texts))

compute_word_consensus(base_tokens, model_texts) ==
    ApplyModels([k \in 1..Len(base_tokens) |->
                    WordConsensus(base_tokens[k].text, base_tokens[k].line_index,
                                  base_tokens[k].word_index, <<>>)],
                [k \in 1..Len(base_tokens) |-> base_tokens[k].text],
                model_texts)

(***************************************************************************)
(* processing: from the result of the OCR engine to the segments of a      *)
(* project.  Only what the segments' ids, order, texts and alternatives    *)
(* depend on is kept: the boxes and the page image of a segment are        *)
(* carried through unread and are left out.                                *)
(***************************************************************************)
TesseractWord(text, line_index, word_index) ==
    [text |-> text, line_index |-> line_index, word_index |-> word_index]

TesseractLine(text, line_index, words) ==
    [text |-> text, line_index |-> line_index, words |-> words]

TesseractResult(text, lines) == [text |-> text, lines |-> lines]

\* run_tesseract with pytesseract: rows holds, line by line, the non-empty
\* texts image_to_data reports; a line is numbered when its first word is met
run_tesseract_data(rows) ==
    LET lines == [k \in 1..Len(rows) |->
                     TesseractLine(join(SP, rows[k]), k - 1,
                                   [w \in 1..Len(rows[k]) |->
                                       TesseractWord(rows[k][w], k - 1, w - 1)])]
    IN TesseractResult(join(NL, [k \in 1..Len(lines) |-> lines[k].text]), lines)

\* run_tesseract with the command line: the text as one line without words
run_tesseract_cli(text) ==
    TesseractResult(text,
        <<TesseractLine([k \in 1..Len(text) |-> IF text[k] = "\n" THEN " " ELSE text[k]],
                        0, <<>>)>>)

NormalizedLine(line_index, text, words) ==
    [line_index |-> line_index, text |-> text, words |-> words]

NormalizedWord(text, line_index, word_index) ==
    [text |-> text, line_index |-> line_index, word_index |-> word_index]

\* the words of a line that has none from the engine: the tokens of its text
TokenWords(text, line_index) ==
    LET tokens == split(text)
    IN [k \in 1..Len(tokens) |-> NormalizedWord(tokens[k], line_index, k - 1)]

\* _normalize_segments: the lines
NormalizeLines(tess_result) ==
    IF tess_result.lines = <<>>
    THEN <<NormalizedLine(0, strip(tess_result.text), TokenWords(strip(tess_result.text), 0))>>
    ELSE [k \in 1..Len(tess_result.lines) |->
             LET line == tess_result.lines[k]
             IN NormalizedLine(line.line_index, line.text,
                    IF line.words # <<>>
                    THEN [w \in 1..Len(line.words) |->
                             NormalizedWord(line.words[w].text, line.line_index,
                                            line.words[w].word_index)]
                    ELSE TokenWords(line.text, line.line_index))]

\* _normalize_segments: the base tokens, line after line
RECURSIVE BaseTokensOf(_)
BaseTokensOf(lines) ==
    IF lines = <<>> THEN <<>>
    ELSE [w \in 1..Len(lines[1].words) |->
             BaseToken(lines[1].words[w].text, lines[1].words[w].line_index,
                       lines[1].words[w].word_index)]
         \o BaseTokensOf(Tail(lines))

_normalize_segments(tess_result) ==
    [lines |-> NormalizeLines(tess_result),
     base_tokens |-> BaseTokensOf(NormalizeLines(tess_result))]

\* a segment as the builder makes it
BuiltSegment(segment_id, view, page_index, line_index, word_index, base_text, consensus_text, has_conflict_, alternatives, word_ids) ==
    [segment_id |-> segment_id, view |-> view, page_index |-> page_index,
     line_index |-> line_index, word_index |-> word_index, base_text |-> base_text,
     consensus_text |-> consensus_text, has_conflict |-> has_conflict_,
     alternatives |-> alternatives, word_ids |-> word_ids]

\* consensus_by_line.get(line_index, [])
RECURSIVE EntriesOfLine(_, _)
EntriesOfLine(word_consensus, line_index) ==
    IF word_consensus = <<>> THEN <<>>
    ELSE (IF word_consensus[1].line_index = line_index THEN <<word_consensus[1]>> ELSE <<>>)
         \o EntriesOfLine(Tail(word_consensus), line_index)

\* sorted(consensus_entries, key=lambda item: item.word_index)
RECURSIVE InsertByWordIndex(_, _)
InsertByWordIndex(sorted, x) ==
    IF sorted = <<>> THEN <<x>>
    ELSE IF x.word_index < sorted[1].word_index
         THEN <<x>> \o sorted
         ELSE <<sorted[1]>> \o InsertByWordIndex(Tail(sorted), x)

RECURSIVE SortByWordIndex(_)
SortByWordIndex(entries) ==
    IF entries = <<>> THEN <<>>
    ELSE InsertByWordIndex(SortByWordIndex(SubSeq(entries, 1, Len(entries) - 1)),
                           entries[Len(entries)])

\* _compose_line_alternatives: the token_list of a model
RECURSIVE ComposeTokens(_, _)
ComposeTokens(entries, model) ==
    IF entries = <<>> THEN <<>>
    ELSE (IF AltHas(entries[1].alternatives, model)
          THEN <<IF AltGet(entries[1].alternatives, model) # <<>>
                 THEN AltGet(entries[1].alternatives, model) ELSE entries[1].base>>
          ELSE <<>>)
         \o ComposeTokens(Tail(entries), model)

\* _compose_line_alternatives: the models in the order they are first met
RECURSIVE ComposeModelsFrom(_, _)
ComposeModelsFrom(entries, met) ==
    IF entries = <<>> THEN met
    ELSE ComposeModelsFrom(Tail(entries),
             met \o SelectSeq([k \in 1..Len(entries[1].alternatives) |->
                                  entries[1].alternatives[k].model],
                              LAMBDA name : ~InSeq(name, met)))

ComposeModels(entries) == ComposeModelsFrom(entries, <<>>)

_compose_line_alternatives(consensus_entries) ==
    LET models == ComposeModels(consensus_entries)
    IN [k \in 1..Len(models) |->
           [model |-> models[k],
            text |-> strip(join(SP, ComposeTokens(consensus_entries, models[k])))]]

\* consensus_map.get((word.line_index, word.word_index)): <<>> or <<entry>>
ConsensusOfWord(consensus_entries, word) ==
    LET hits == {k \in 1..Len(consensus_entries) :
                    /\ consensus_entries[k].line_index = word.line_index
                    /\ consensus_entries[k].word_index = word.word_index}
    IN IF hits = {} THEN <<>>
       ELSE <<consensus_entries[CHOOSE k \in hits : \A j \in hits : j <= k]>>

\* _build_segments: the word segment of a word of a line
WordSegment(page_index, line, word, consensus_entries) ==
    LET found == ConsensusOfWord(consensus_entries, word)
    IN BuiltSegment(_segment_id(page_index, line.line_index, <<word.word_index>>, "word"),
                    "word", page_index, line.line_index, <<word.word_index>>, word.text,
                    IF found # <<>> THEN display_text(found[1]) ELSE word.text,
                    IF found # <<>> THEN has_conflict(found[1]) ELSE FALSE,
                    IF found # <<>> THEN found[1].alternatives ELSE <<>>,
                    <<>>)

\* line_word_ids with the last word first
line_word_ids_reversed(page_index, line) ==
    [w \in 1..Len(line.words) |->
        _segment_id(page_index, line.line_index,
                    <<line.words[Len(line.words) + 1 - w].word_index>>, "word")]

\* _build_segments: line_word_ids when the words of the line are done
line_word_ids(page_index, line) ==
    [w \in 1..Len(line.words) |->
        _segment_id(page_index, line.line_index, <<line.words[w].word_index>>, "word")]

\* _build_segments: the line segment of a line
LineSegment(page_index, line, consensus_entries) ==
    LET entries == SortByWordIndex(consensus_entries)
    IN BuiltSegment(_segment_id(page_index, line.line_index, <<>>, "line"),
                    "line", page_index, line.line_index, <<>>, line.text,
                    IF consensus_entries # <<>>
                    THEN strip(join(SP, [k \in 1..Len(entries) |-> display_text(entries[k])]))
                    ELSE strip(join(SP, [w \in 1..Len(line.words) |-> line.words[w].text])),
                    IF consensus_entries # <<>>
                    THEN \E k \in 1..Len(entries) : has_conflict(entries[k])
                    ELSE FALSE,
                    IF consensus_entries # <<>>
                    THEN _compose_line_alternatives(entries) ELSE <<>>,
                    line_word_ids(page_index, line))

\* _build_segments: the word segments, line after line
RECURSIVE BuildWords(_, _, _)
BuildWords(page_index, lines, word_consensus) ==
    IF lines = <<>> THEN <<>>
    ELSE [w \in 1..Len(lines[1].words) |->
             WordSegment(page_index, lines[1], lines[1].words[w],
                         EntriesOfLine(word_consensus, lines[1].line_index))]
         \o BuildWords(page_index, Tail(lines), word_consensus)

_build_segments(page_index, lines, word_consensus) ==
    [word_segments |-> BuildWords(page_index, lines, word_consensus),
     line_segments |-> [k \in 1..Len(lines) |->
                           LineSegment(page_index, lines[k],
                                       EntriesOfLine(word_consensus, lines[k].line_index))]]

\* the sort key of process_inputs with a line counted as its word 0
PersistKey_line_as_word(seg) ==
    <<seg.page_index, seg.line_index,
      IF seg.word_index # <<>> THEN seg.word_index[1] ELSE 0, 0>>

\* the sort key of process_inputs
PersistKey(seg) ==
    <<seg.page_index, seg.line_index,
      IF seg.word_index # <<>> THEN seg.word_index[1] ELSE -1,
      IF seg.view = "line" THEN 0 ELSE 1>>

\* tuples of the same length in lexicographic order
RECURSIVE TupleLess(_, _)
TupleLess(a, b) ==
    /\ a # <<>>
    /\ \/ a[1] < b[1]
       \/ a[1] = b[1] /\ TupleLess(Tail(a), Tail(b))

\* sorted(segments, key=...) is stable: x goes after every element whose key is not greater
RECURSIVE InsertByPersistKey(_, _)
InsertByPersistKey(sorted, x) ==
    IF sorted = <<>> THEN <<x>>
    ELSE IF TupleLess(PersistKey(x), PersistKey(sorted[1]))
         THEN <<x>> \o sorted
         ELSE <<sorted[1]>> \o InsertByPersistKey(Tail(sorted), x)

RECURSIVE SortByPersistKey(_)
SortByPersistKey(segs) ==
    IF segs = <<>> THEN <<>>
    ELSE InsertByPersistKey(SortByPersistKey(SubSeq(segs, 1, Len(segs) - 1)),
                            segs[Len(segs)])

\* the segments of the pages, in the order process_inputs collects them
RECURSIVE CollectSegments(_, _)
CollectSegments(pages, page_index) ==
    IF pages = <<>> THEN <<>>
    ELSE LET normalized == _normalize_segments(pages[1])
             built == _build_segments(page_index, normalized.lines,
                          compute_word_consensus(normalized.base_tokens, <<>>))
         IN built.word_segments \o built.line_segments
            \o CollectSegments(Tail(pages), page_index + 1)

\* sorted(master_lines.keys()): the keys in ascending order
SortKeys(keys) ==
    [i \in 1..Cardinality(keys) |->
        CHOOSE k \in keys : Cardinality({other \in keys : TupleLess(other, k)}) = i - 1]

\* master_lines filled with the base text of the line
MasterLine_base_text(segs, key) ==
    LET hits == {k \in 1..Len(segs) :
                    segs[k].view = "line" /\ <<segs[k].page_index, segs[k].line_index>> = key}
    IN segs[CHOOSE k \in hits : \A j \in hits : j <= k].base_text

\* master_lines[(page_index, line.line_index)]: the last line given the key
MasterLine(segs, key) ==
    LET hits == {k \in 1..Len(segs) :
                    segs[k].view = "line" /\ <<segs[k].page_index, segs[k].line_index>> = key}
    IN segs[CHOOSE k \in hits : \A j \in hits : j <= k].consensus_text

\* "\n".join(ordered_lines)
MasterText(segs, keys) == join(NL, [k \in 1..Len(keys) |-> MasterLine(segs, keys[k])])

\* the state process_inputs writes when there is none
FirstState(segments_sorted) ==
    NavState("line", IF segments_sorted # <<>> THEN segments_sorted[1].segment_id ELSE "")

\* process_inputs after the pages are done: what it writes to segments.json,
\* master.txt and state.json
Persisted(collected) ==
    [segments |-> SortByPersistKey(collected),
     master |-> MasterText(collected,
                    SortKeys({<<collected[k].page_index, collected[k].line_index>> :
                                 k \in {j \in 1..Len(collected) : collected[j].view = "line"}})),
     state |-> FirstState(SortByPersistKey(collected))]

\* process_inputs, from the results of the engine for the pages
process_inputs(pages) == Persisted(CollectSegments(pages, 0))

(***************************************************************************)
(* Segment collections a project can hold (segments.json).                 *)
(***************************************************************************)
\* tests/test_runtime_editor.py, with a second line that has no words
GraphEditor ==
    <<Segment("p000_l0000", "line", 0, 0, <<>>, <<"hello", " ", "world">>, FALSE,
              <<"p000_l0000_w0000", "p000_l0000_w0001">>),
      Segment("p000_l0000_w0000", "word", 0, 0, <<0>>, <<"hello">>, FALSE, <<>>),
      Segment("p000_l0000_w0001", "word", 0, 0, <<1>>, <<"world">>, TRUE, <<>>),
      Segment("p000_l0001", "line", 0, 1, <<>>, <<"second", " ", "row">>, TRUE, <<>>)>>

\* a line that lists one of its two words; the other word is an orphan
GraphOrphan ==
    <<Segment("p000_l0000", "line", 0, 0, <<>>, <<"hello">>, FALSE, <<"p000_l0000_w0000">>),
      Segment("p000_l0000_w0000", "word", 0, 0, <<0>>, <<"hello">>, FALSE, <<>>),
      Segment("p000_l0000_w0001", "word", 0, 0, <<1>>, <<"world">>, TRUE, <<>>)>>

\* tests/test_runtime_navigator.py, with a third line that has no words
GraphNav ==
    <<Segment("p000_l0000", "line", 0, 0, <<>>, <<"line", " ", "one">>, FALSE,
              <<"p000_l0000_w0000", "p000_l0000_w0001">>),
      Segment("p000_l0001", "line", 0, 1, <<>>, <<"line", " ", "two">>, TRUE,
              <<"p000_l0001_w0000">>),
      Segment("p000_l0002", "line", 0, 2, <<>>, <<"three">>, TRUE, <<>>),
      Segment("p000_l0000_w0000", "word", 0, 0, <<0>>, <<"line">>, FALSE, <<>>),
      Segment("p000_l0000_w0001", "word", 0, 0, <<1>>, <<"one">>, TRUE, <<>>),
      Segment("p000_l0001_w0000", "word", 0, 1, <<0>>, <<"two">>, TRUE, <<>>)>>

\* lines without words: the word order is empty
GraphLinesOnly ==
    <<Segment("p000_l0001", "line", 0, 1, <<>>, <<"two">>, TRUE, <<>>),
      Segment("p000_l0000", "line", 0, 0, <<>>, <<"one">>, FALSE, <<>>)>>

\* words without lines: the line order is empty
GraphWordsOnly ==
    <<Segment("p000_l0000_w0001", "word", 0, 0, <<1>>, <<"one">>, TRUE, <<>>),
      Segment("p000_l0000_w0000", "word", 0, 0, <<0>>, <<"line">>, FALSE, <<>>)>>

\* a conflicted line between two others, both of its words conflicted
GraphSiblings ==
    <<Segment("p000_l0000", "line", 0, 0, <<>>, <<"one">>, FALSE, <<"p000_l0000_w0000">>),
      Segment("p000_l0001", "line", 0, 1, <<>>, <<"line", " ", "two">>, TRUE,
              <<"p000_l0001_w0000", "p000_l0001_w0001">>),
      Segment("p000_l0002", "line", 0, 2, <<>>, <<"three">>, TRUE, <<>>),
      Segment("p000_l0000_w0000", "word", 0, 0, <<0>>, <<"one">>, FALSE, <<>>),
      Segment("p000_l0001_w0000", "word", 0, 1, <<0>>, <<"line">>, TRUE, <<>>),
      Segment("p000_l0001_w0001", "word", 0, 1, <<1>>, <<"two">>, TRUE, <<>>)>>

Graphs == {GraphEditor, GraphOrphan, GraphNav, GraphLinesOnly, GraphWordsOnly}

\* the collections whose words all have their line
PairedGraphs == {GraphNav, GraphSiblings}

EditGraphs == {GraphEditor, GraphOrphan}

NavGraphs == {GraphNav, GraphLinesOnly, GraphWordsOnly}

\* an id that is no segment of any collection
UnknownId == "unknown"

RequestIds == SegmentIds \cup {UnknownId}

Views == {"line", "word"}

Actions == {"prev", "next", "next_issue"}

(***************************************************************************)
(* Input texts.                                                            *)
(***************************************************************************)
Alphabet == {"alpha", "beta", " "}

\* every text of exactly n atoms
RECURSIVE TextsOfLen(_)
TextsOfLen(n) ==
    IF n = 0 THEN {<<>>}
    ELSE {Append(t, a) : t \in TextsOfLen(n - 1), a \in Alphabet}

\* every text of at most n atoms
TextsUpTo(n) == UNION {TextsOfLen(k) : k \in 0..n}

\* the texts a save is tried with
EditTexts ==
    {<<>>, <<" ">>, <<"alpha">>, <<"alpha", " ", "beta">>, <<" ", "beta", "\t">>,
     <<"alpha", " ", "beta", " ", "gamma">>}

\* the texts a save is tried with where only the presence of an edit matters:
\* the consensus text of a conflicted word, and another text
NavTexts == {<<"two">>, <<"alpha">>}

(***************************************************************************)
(* ProjectRuntime: the methods the server calls, as server.py has them.    *)
(* get_segment answers an id that is no segment with abort(404), so an     *)
(* operation returns the error it ended with: "" when it returned,         *)
(* "NotFound" for abort(404), "KeyError" for a failed dict lookup.         *)
(***************************************************************************)
\* ProjectRuntime.get_segment: the error it ends with
ProjectRuntime_get_segment(segment_id) ==
    IF segment_id \notin DOMAIN segments_by_id THEN "NotFound" ELSE ""

ProjectRuntime_save_line(e, line_id, text) ==
    IF ProjectRuntime_get_segment(line_id) # ""
    THEN [error |-> ProjectRuntime_get_segment(line_id), edits |-> e]
    ELSE LET word_ids == segments_by_id[line_id].word_ids
             n == Len(word_ids)
             split_tokens == split(text)
             filled == IF split_tokens = <<>> THEN [i \in 1..n |-> <<>>] ELSE split_tokens
             tokens == IF Len(filled) < n
                       THEN filled \o [i \in 1..(n - Len(filled)) |-> <<>>]
                       ELSE IF Len(filled) > n
                            THEN LET leading == SubSeq(filled, 1, n - 1)
                                     trailing == join(SP, SubSeq(filled, n, Len(filled)))
                                 IN leading \o <<trailing>>
                            ELSE filled
             e1 == IF word_ids # <<>> THEN ZipAssign(e, word_ids, tokens) ELSE e
         IN [error |-> "", edits |-> Put(e1, line_id, text)]

ProjectRuntime_recalculate_line_from_word(e, line_index, page_index) ==
    LET line_id == "p" \o ZeroPad(page_index, 3) \o "_l" \o ZeroPad(line_index, 4)
    IN IF line_id \notin DOMAIN segments_by_id
       THEN [error |-> "", edits |-> e]
       ELSE LET word_ids == segments_by_id[line_id].word_ids
                tokens == [i \in 1..Len(word_ids) |->
                              IF word_ids[i] \in DOMAIN segments_by_id
                              THEN Get(e, word_ids[i], segments_by_id[word_ids[i]].consensus_text)
                              ELSE <<>>]
            IN IF \E i \in 1..Len(word_ids) : word_ids[i] \notin DOMAIN segments_by_id
               THEN [error |-> "KeyError", edits |-> e]
               ELSE [error |-> "", edits |-> Put(e, line_id, strip(join(SP, tokens)))]

ProjectRuntime_save_word(e, word_id, text) ==
    IF ProjectRuntime_get_segment(word_id) # ""
    THEN [error |-> ProjectRuntime_get_segment(word_id), edits |-> e]
    ELSE LET word_segment == segments_by_id[word_id]
             e1 == Put(e, word_id, text)
             parent_line_id == Get(parents, word_id, "")
         IN IF parent_line_id # ""
            THEN LET word_ids == segments_by_id[parent_line_id].word_ids
                     tokens == [i \in 1..Len(word_ids) |->
                                   IF word_ids[i] = word_id THEN text
                                   ELSE IF word_ids[i] \in DOMAIN segments_by_id
                                   THEN Get(e1, word_ids[i], segments_by_id[word_ids[i]].consensus_text)
                                   ELSE <<>>]
                 IN IF \E i \in 1..Len(word_ids) :
                          word_ids[i] # word_id /\ ProjectRuntime_get_segment(word_ids[i]) # ""
                    THEN [error |-> "NotFound", edits |-> e1]
                    ELSE [error |-> "", edits |-> Put(e1, parent_line_id, strip(join(SP, tokens)))]
            ELSE ProjectRuntime_recalculate_line_from_word(e1, word_segment.line_index,
                                                           word_segment.page_index)

\* ProjectRuntime.get_text: [error, value]
RECURSIVE ProjectRuntime_get_text(_, _)
ProjectRuntime_get_text(e, segment_id) ==
    IF segment_id \in DOMAIN e
    THEN [error |-> "", value |-> e[segment_id]]
    ELSE IF ProjectRuntime_get_segment(segment_id) # ""
    THEN [error |-> ProjectRuntime_get_segment(segment_id), value |-> <<>>]
    ELSE LET segment == segments_by_id[segment_id]
         IN IF segment.view = "line" /\ segment.word_ids # <<>>
            THEN LET tokens == [i \in 1..Len(segment.word_ids) |->
                                   ProjectRuntime_get_text(e, segment.word_ids[i])]
                     text == strip(join(SP, [i \in 1..Len(tokens) |-> tokens[i].value]))
                 IN IF \E i \in 1..Len(tokens) : tokens[i].error # ""
                    THEN [error |-> "NotFound", value |-> <<>>]
                    ELSE [error |-> "",
                          value |-> IF text # <<>> THEN text ELSE segment.consensus_text]
            ELSE [error |-> "", value |-> segment.consensus_text]

\* ProjectRuntime._compose_master_text: [error, value]
ProjectRuntime_compose_master_text(e) ==
    LET lines == [i \in 1..Len(orders["line"]) |-> ProjectRuntime_get_text(e, orders["line"][i])]
    IN [error |-> IF \E i \in 1..Len(lines) : lines[i].error # "" THEN "NotFound" ELSE "",
        value |-> join(NL, [i \in 1..Len(lines) |-> lines[i].value])]

\* ProjectRuntime.save, up to _persist
ProjectRuntime_save(e, segment_id, view, text) ==
    IF view = "line"
    THEN ProjectRuntime_save_line(e, segment_id, text)
    ELSE ProjectRuntime_save_word(e, segment_id, text)

\* ProjectRuntime._next_issue, the loop from idx on
RECURSIVE ProjectRuntime_next_issue_from(_, _, _)
ProjectRuntime_next_issue_from(e, order, idx) ==
    IF idx >= Len(order) THEN <<>>
    ELSE IF segments_by_id[order[idx + 1]].has_conflict /\ order[idx + 1] \notin DOMAIN e
         THEN <<order[idx + 1]>>
         ELSE ProjectRuntime_next_issue_from(e, order, idx + 1)

ProjectRuntime_next_issue(e, view, start_index) ==
    LET order == IF view \in DOMAIN orders THEN orders[view] ELSE <<>>
        length == Len(order)
    IN IF length = 0 THEN <<>>
       ELSE ProjectRuntime_next_issue_from(e, order, Max(start_index + 1, 0))

ProjectRuntime_navigate(e, view, current_id, action) ==
    LET order == IF view \in DOMAIN orders THEN orders[view] ELSE <<>>
        found == index_of(order, current_id)
        index == IF found = <<>> THEN 0 ELSE found[1]
    IN IF order = <<>> THEN current_id
       ELSE IF action = "prev" THEN order[Max(index - 1, 0) + 1]
       ELSE IF action = "next" THEN order[Min(index + 1, Len(order) - 1) + 1]
       ELSE IF action = "next_issue"
            THEN LET next_issue_id == ProjectRuntime_next_issue(e, view, index)
                 IN IF next_issue_id = <<>> \/ next_issue_id[1] = ""
                    THEN current_id
                    ELSE next_issue_id[1]
       ELSE order[index + 1]

\* ProjectRuntime.switch_view: the id it returns
ProjectRuntime_switch_view(current_segment, target_view) ==
    LET found == current_segment \in DOMAIN segments_by_id
        segment == segments_by_id[current_segment]
        target0 ==
            IF target_view = "line"
            THEN LET t == IF found /\ segment.view = "line" THEN current_segment
                          ELSE IF found /\ segment.view = "word"
                               THEN Get(parents, current_segment, "")
                               ELSE ""
                 IN IF t = "" /\ orders["line"] # <<>> THEN orders["line"][1] ELSE t
            ELSE LET t == IF found /\ segment.view = "word" THEN current_segment
                          ELSE IF found /\ segment.view = "line" /\ segment.word_ids # <<>>
                               THEN segment.word_ids[1]
                               ELSE ""
                 IN IF t = "" /\ orders["word"] # <<>> THEN orders["word"][1] ELSE t
    IN IF target0 = "" THEN current_segment ELSE target0

\* ProjectRuntime.persist_state: self.state is bound to a new dict
ProjectRuntime_persist_state(view, segment_id) == [view |-> view, segment_id |-> segment_id]

ProjectRuntime_navigation_status(e, segment_id, view) ==
    LET order == IF view \in DOMAIN orders THEN orders[view] ELSE <<>>
        found == index_of(order, segment_id)
    IN IF view \notin {"line", "word"}
       THEN [can_prev |-> FALSE, can_next |-> FALSE, has_next_issue |-> FALSE]
       ELSE IF order = <<>>
       THEN [can_prev |-> FALSE, can_next |-> FALSE, has_next_issue |-> FALSE]
       ELSE IF found = <<>>
       THEN [can_prev |-> FALSE, can_next |-> FALSE, has_next_issue |-> FALSE]
       ELSE [can_prev |-> found[1] > 0,
             can_next |-> found[1] < Len(order) - 1,
             has_next_issue |-> ProjectRuntime_next_issue(e, view, found[1]) # <<>>]

\* no ProjectRuntime is run beside the services
NoRuntime == [op |-> "none"]

(***************************************************************************)
(* The state machine.                                                      *)
(***************************************************************************)
Op(op, segment_id, view, text, action, ret_id, ret_text, raised) ==
    [op |-> op, segment_id |-> segment_id, view |-> view, text |-> text,
     action |-> action, ret_id |-> ret_id, ret_text |-> ret_text, raised |-> raised,
     status |-> NoStatus]

\* master.txt as process_inputs writes it: the lines' consensus texts
build_master(segs) ==
    LET lines == SortByKey(FilterView(segs, "line"))
    IN join(NL, [i \in 1..Len(lines) |-> lines[i].consensus_text])

\* no request is being handled
NoRequests == <<>>

\* compute_word_consensus has not been called
NoConsensus == [base_words |-> <<>>, model_texts |-> <<>>, result |-> <<>>, done |-> FALSE]

(***************************************************************************)
(* Crop geometry (ImageService, ProjectRuntime).  A bbox is the dict of a   *)
(* segment: a function from some of "x", "y", "w", "h" to integers; a page  *)
(* is the size of its image.                                                *)
(***************************************************************************)
NoBBox == [k \in {} |-> 0]

BBox(x, y, w, h) == [k \in {"x", "y", "w", "h"} |-> CASE k = "x" -> x [] k = "y" -> y [] k = "w" -> w [] OTHER -> h]

\* dict.get(key, default)
bbox_get(bbox, key, default) == IF key \in DOMAIN bbox THEN bbox[key] ELSE default

\* int(base * ratio) of a positive integer, for the ratios 0.1 and 0.5 given as
\* 1 / den: the product is never below the exact quotient, so it floors to it
pad_of(base, den) == base \div den

PaddingXDen == 10

PaddingYDen == 2

MinPadding == 2

\* ImageService._crop_geometry and ProjectRuntime._crop_geometry: the same body
_crop_geometry(bbox, width, height) ==
    LET base_x == bbox_get(bbox, "x", 0)
        base_y == bbox_get(bbox, "y", 0)
        base_w == Max(bbox_get(bbox, "w", 1), 1)
        base_h == Max(bbox_get(bbox, "h", 1), 1)
        pad_x == Max(pad_of(base_w, PaddingXDen), MinPadding)
        pad_y == Max(pad_of(base_h, PaddingYDen), MinPadding)
        left == Max(base_x - pad_x, 0)
        top == Max(base_y - pad_y, 0)
        right == Min(base_x + base_w + pad_x, width)
        bottom == Min(base_y + base_h + pad_y, height)
    IN  [left |-> left, top |-> top, right |-> right, bottom |-> bottom,
         width |-> Max(right - left, 1), height |-> Max(bottom - top, 1)]

\* Image.crop((left, top, right, bottom)) of the imaging library: a box whose
\* right is left of its left (or bottom above its top) raises ValueError in
\* the library's current releases and gave an empty side in older ones
ImageCrop(left, top, right, bottom) ==
    IF right < left \/ bottom < top
    THEN {[raised |-> "ValueError", size |-> <<>>],
          [raised |-> "", size |-> <<Max(right - left, 0), Max(bottom - top, 0)>>]}
    ELSE {[raised |-> "", size |-> <<right - left, bottom - top>>]}

NoImage == [raised |-> "", size |-> <<>>]

\* no crop has been asked for
NoImages ==
    [op |-> "none", bbox |-> NoBBox, page |-> <<1, 1>>,
     crop |-> [left |-> 0, top |-> 0, right |-> 0, bottom |-> 0, width |-> 0, height |-> 0],
     image |-> NoImage]

\* the pages have not been processed
NoBuild ==
    [op |-> "none", pages |-> <<>>, lines |-> <<>>, word_consensus |-> <<>>,
     segments |-> <<>>, master |-> <<>>, state |-> NoState, runs |-> 0, previous |-> <<>>]

\* ProjectRuntime.__init__ on a project holding segments g and state.json ps
Load(g, ps) ==
    /\ segments = g
    /\ segments_by_id = index_segments(g)
    /\ orders = [line |-> _ordered_ids(g, "line"), word |-> _ordered_ids(g, "word")]
    /\ parents = index_parents(g)
    /\ edits = EmptyDict
    /\ stored_edits = EmptyDict
    /\ stored_master = build_master(g)
    /\ state = ensure_state(ps, ps).state
    /\ stored_state = ensure_state(ps, ps).stored_state
    /\ saved_ids = {}
    /\ nops = 0

\* a runtime and nothing else
Construct(g, ps) ==
    /\ Load(g, ps)
    /\ inflight = NoRequests
    /\ consensus = NoConsensus
    /\ build = NoBuild
    /\ images = NoImages
    /\ runtime = NoRuntime

Idle == Op("init", "", "", <<>>, "", "", <<>>, FALSE)

Init ==
    /\ \E g \in Graphs : Construct(g, NoState)
    /\ last = Idle

\* SegmentEditor.save / ProjectRuntime.save, with _persist
DoSave(segment_id, view, text) ==
    LET r == save(edits, segment_id, view, text)
        m == compose_master_text(r.edits)
    IN /\ edits' = r.edits
       /\ stored_edits' = IF r.raised THEN stored_edits ELSE r.edits
       /\ stored_master' = IF r.raised \/ m.raised THEN stored_master ELSE m.value
       /\ last' = Op("save", segment_id, view, text, "", "", <<>>, r.raised \/ m.raised)
       /\ saved_ids' = IF r.raised \/ m.raised THEN saved_ids ELSE saved_ids \cup {segment_id}
       /\ nops' = nops + 1
       /\ UNCHANGED <<graph, state, stored_state, aux>>

Save ==
    /\ nops < MaxOps
    /\ \E segment_id \in SegmentIds, view \in Views, text \in EditTexts :
          DoSave(segment_id, view, text)

\* a save where only the presence of the edit matters
SaveAny ==
    /\ nops < MaxOps
    /\ \E segment_id \in SegmentIds, view \in Views, text \in NavTexts :
          DoSave(segment_id, view, text)

\* the save of a line that was requested at the start
SaveRequested ==
    /\ last.op = "request"
    /\ DoSave(last.segment_id, last.view, last.text)

GetText ==
    /\ nops < MaxOps
    /\ nops' = nops + 1
    /\ \E segment_id \in SegmentIds :
        LET r == get_text(edits, segment_id)
        IN /\ last' = Op("get_text", segment_id, "", <<>>, "", "", r.value, r.raised)
           /\ UNCHANGED <<graph, edits, stored_edits, stored_master, state, stored_state, saved_ids, aux>>

Navigate ==
    /\ nops < MaxOps
    /\ nops' = nops + 1
    /\ \E view \in Views, current_id \in RequestIds, action \in Actions :
        /\ last' = Op("navigate", current_id, view, <<>>, action,
                      navigate(edits, view, current_id, action), <<>>, FALSE)
        /\ UNCHANGED <<graph, edits, stored_edits, stored_master, state, stored_state, saved_ids, aux>>

\* switch_view, with persist_state
SwitchView ==
    /\ nops < MaxOps
    /\ nops' = nops + 1
    /\ \E current_segment \in RequestIds, target_view \in Views :
        LET target == switch_view(current_segment, target_view)
        IN /\ state' = NavState(target_view, target)
           /\ stored_state' = NavState(target_view, target)
           /\ last' = Op("switch_view", current_segment, target_view, <<>>, "", target, <<>>, FALSE)
           /\ UNCHANGED <<graph, edits, stored_edits, stored_master, saved_ids, aux>>

Next == Save \/ GetText \/ Navigate \/ SwitchView

Spec == Init /\ [][Next]_vars

\* editing alone
InitEdit ==
    /\ \E g \in EditGraphs : Construct(g, NoState)
    /\ last = Idle

NextEdit == Save \/ GetText

SpecEdit == InitEdit /\ [][NextEdit]_vars

\* one line save, the line and the text drawn at the start
InitLine ==
    /\ \E g \in {GraphNav} : Construct(g, NoState)
    /\ \E i \in 1..Len(orders["line"]), text \in TextsUpTo(MaxLineLen) :
          last = Op("request", orders["line"][i], "line", text, "", "", <<>>, FALSE)

NextLine == SaveRequested

SpecLine == InitLine /\ [][NextLine]_vars

\* navigation over edited and unedited segments
InitNav ==
    /\ \E g \in NavGraphs : Construct(g, NoState)
    /\ last = Idle

NextNav == SaveAny \/ Navigate

SpecNav == InitNav /\ [][NextNav]_vars

\* moving and switching views, on every collection
NextView == Navigate \/ SwitchView

SpecView == Init /\ [][NextView]_vars

\* the views and texts the editor is called with by a caller that checks nothing
CallViews == Views \cup {"page"}

CallTexts == {<<>>, <<"alpha">>, <<"alpha", " ", "beta">>}

\* SegmentEditor.save called with any id and any view
SaveCall ==
    /\ nops < MaxOps
    /\ \E segment_id \in RequestIds, view \in CallViews, text \in CallTexts :
          DoSave(segment_id, view, text)

\* SegmentEditor.get_text called with any id
GetTextCall ==
    /\ nops < MaxOps
    /\ nops' = nops + 1
    /\ \E segment_id \in RequestIds :
        LET r == get_text(edits, segment_id)
        IN /\ last' = Op("get_text", segment_id, "", <<>>, "", "", r.value, r.raised)
           /\ UNCHANGED <<graph, edits, stored_edits, stored_master, state, stored_state, saved_ids, aux>>

NextCall == SaveCall \/ GetTextCall

SpecCall == InitEdit /\ [][NextCall]_vars

\* navigation_status, as segment_payload calls it for the segment it shows
NavigationStatus ==
    /\ nops < MaxOps
    /\ nops' = nops + 1
    /\ \E segment_id \in RequestIds, view \in Views \cup {"page"} :
        /\ last' = [Op("navigation_status", segment_id, view, <<>>, "", "", <<>>, FALSE)
                        EXCEPT !.status = navigation_status(edits, segment_id, view)]
        /\ UNCHANGED <<graph, edits, stored_edits, stored_master, state, stored_state, saved_ids, aux>>

\* the navigation flags over edited and unedited segments
NextStatus == SaveAny \/ NavigationStatus

SpecStatus == InitNav /\ [][NextStatus]_vars

\* saves as the pages of the editor send them: a line with the view "line",
\* a word with the view "word"
SavePaired ==
    /\ nops < MaxOps
    /\ \E segment_id \in SegmentIds, text \in NavTexts :
          DoSave(segment_id, segments_by_id[segment_id].view, text)

InitPaired ==
    /\ \E g \in PairedGraphs : Construct(g, NoState)
    /\ last = Idle

NextPaired == SavePaired \/ Navigate

SpecPaired == InitPaired /\ [][NextPaired]_vars

(***************************************************************************)
(* The request layer: the handlers that move the NavigationState, and a    *)
(* runtime constructed over a state.json left by an earlier session.       *)
(***************************************************************************)
\* the actions POST /api/save passes to navigate; "save" is its default
SaveActions == Actions \cup {"save"}

\* what state.json can hold when the runtime is constructed: nothing, or a
\* view and a segment id that need not be a view or a segment of the project
StoredStates(g) ==
    {NoState} \cup
    {NavState(view, segment_id) :
        view \in Views \cup {"page"},
        segment_id \in {g[1].segment_id, g[Len(g)].segment_id, "", UnknownId}}

\* the texts the handlers are tried with
StateTexts == {<<"alpha">>}

\* POST /api/save: runtime.save, runtime.navigate, runtime.persist_state
DoSaveSegment(segment_id, view, text, action) ==
    LET r == save(edits, segment_id, view, text)
        m == compose_master_text(r.edits)
        failed == r.raised \/ m.raised
        next_id == navigate(r.edits, view, segment_id, action)
    IN /\ nops' = nops + 1
       /\ edits' = r.edits
       /\ stored_edits' = IF r.raised THEN stored_edits ELSE r.edits
       /\ stored_master' = IF failed THEN stored_master ELSE m.value
       /\ state' = IF failed THEN state ELSE NavState(view, next_id)
       /\ stored_state' = IF failed THEN stored_state ELSE NavState(view, next_id)
       /\ saved_ids' = IF failed THEN saved_ids ELSE saved_ids \cup {segment_id}
       /\ last' = Op("save_segment", segment_id, view, text, action,
                     IF failed THEN "" ELSE next_id, <<>>, failed)
       /\ UNCHANGED <<graph, aux>>

SaveSegment ==
    /\ nops < MaxOps
    /\ \E segment_id \in RequestIds, view \in Views, text \in StateTexts, action \in SaveActions :
          DoSaveSegment(segment_id, view, text, action)

\* GET /api/state: runtime.ensure_state
GetState ==
    /\ nops < MaxOps
    /\ nops' = nops + 1
    /\ state' = ensure_state(state, stored_state).state
    /\ stored_state' = ensure_state(state, stored_state).stored_state
    /\ last' = Op("get_state", ensure_state(state, stored_state).state.segment_id,
                  ensure_state(state, stored_state).state.view, <<>>, "", "", <<>>, FALSE)
    /\ UNCHANGED <<graph, edits, stored_edits, stored_master, saved_ids, aux>>

InitState ==
    /\ \E g \in Graphs : \E ps \in StoredStates(g) : Construct(g, ps)
    /\ last = Idle

NextState == SaveSegment \/ SwitchView \/ GetState

SpecState == InitState /\ [][NextState]_vars

(***************************************************************************)
(* A session whose requests name a segment of the view they name, on a     *)
(* project both of whose views have segments.  state.json is absent or was *)
(* left by such a session: of this collection, or of an earlier processing *)
(* of the same directory, whose segment the collection no longer has       *)
(* (process_inputs keeps a state.json that exists).                        *)
(***************************************************************************)
SessionGraphs == {GraphEditor, GraphNav, GraphSiblings}

\* the ids of a view in a collection, and an id that is none of them
IdsOfView(g, view) == {g[i].segment_id : i \in {j \in 1..Len(g) : g[j].view = view}} \cup {UnknownId}

SessionStates(g) ==
    {NoState} \cup UNION {{NavState(view, segment_id) : segment_id \in IdsOfView(g, view)} : view \in Views}

\* POST /api/save for a segment of the view it names
SaveSegmentPaired ==
    /\ nops < MaxOps
    /\ \E segment_id \in SegmentIds, text \in StateTexts, action \in SaveActions :
          DoSaveSegment(segment_id, segments_by_id[segment_id].view, text, action)

\* POST /api/view from a segment of the project
SwitchViewKnown ==
    /\ nops < MaxOps
    /\ nops' = nops + 1
    /\ \E current_segment \in SegmentIds, target_view \in Views :
        LET target == switch_view(current_segment, target_view)
        IN /\ state' = NavState(target_view, target)
           /\ stored_state' = NavState(target_view, target)
           /\ last' = Op("switch_view", current_segment, target_view, <<>>, "", target, <<>>, FALSE)
           /\ UNCHANGED <<graph, edits, stored_edits, stored_master, saved_ids, aux>>

InitSession ==
    /\ \E g \in SessionGraphs : \E ps \in SessionStates(g) : Construct(g, ps)
    /\ last = Idle

NextSession == SaveSegmentPaired \/ SwitchViewKnown \/ GetState

SpecSession == InitSession /\ [][NextSession]_vars

(***************************************************************************)
(* The review loop of a client: after some saves, it opens a view at its   *)
(* first segment and repeats POST /api/save of the segment it is shown     *)
(* with the action next_issue, until it is shown the same segment again.   *)
(***************************************************************************)
LoopGraphs == {GraphNav, GraphSiblings, GraphLinesOnly}

\* a save made before the loop starts
SaveBefore ==
    /\ last.op \in {"init", "save"}
    /\ SavePaired

\* POST /api/view with no segment of the project: the first id of the view
OpenView ==
    /\ last.op \in {"init", "save"}
    /\ \E view \in Views :
          /\ orders[view] # <<>>
          /\ state' = NavState(view, switch_view(UnknownId, view))
          /\ stored_state' = NavState(view, switch_view(UnknownId, view))
          /\ last' = Op("switch_view", UnknownId, view, <<>>, "", switch_view(UnknownId, view), <<>>, FALSE)
    /\ nops' = nops + 1
    /\ UNCHANGED <<graph, edits, stored_edits, stored_master, saved_ids, aux>>

\* the loop is over when the save was answered with the segment it saved
LoopOver == last.op = "save_segment" /\ last.ret_id = last.segment_id

\* one round: save the current segment, go to the next issue
SaveCurrentThenNextIssue ==
    /\ last.op \in {"switch_view", "save_segment"}
    /\ ~LoopOver
    /\ \E text \in NavTexts : DoSaveSegment(state.segment_id, state.view, text, "next_issue")

InitLoop ==
    /\ \E g \in LoopGraphs : Construct(g, NoState)
    /\ last = Idle

NextLoop == SaveBefore \/ OpenView \/ SaveCurrentThenNextIssue

SpecLoop == InitLoop /\ [][NextLoop]_vars

\* the client has a request to send: NextLoop has a step exactly in these states
RequestPending ==
    \/ last.op \in {"init", "save"}
    \/ last.op \in {"switch_view", "save_segment"} /\ ~LoopOver

\* a request has been answered: every step of NextLoop counts one operation
RequestAnswered == RequestPending /\ nops' = nops + 1

\* every request of the client is answered: the handlers run to completion
SpecLoopFair == SpecLoop /\ WF_nops(RequestAnswered)

(***************************************************************************)
(* A save request as the steps its thread takes: runtime.save is           *)
(* _save_line or _save_word, then _persist, which is write_edits,          *)
(* _compose_master_text and write_master, one after the other.  The        *)
(* runtime of a project is one object of runtime_cache, shared by every    *)
(* thread of the server; inflight maps a thread to the request it handles. *)
(***************************************************************************)
Threads == {"t1", "t2"}

ThreadTexts == {<<"alpha">>}

Request(pc, segment_id, view, text, master) ==
    [pc |-> pc, segment_id |-> segment_id, view |-> view, text |-> text, master |-> master]

Busy == DOMAIN inflight

\* inflight with thread t moved to pc, holding the master text it composed
AtPc(t, pc, master) ==
    [inflight EXCEPT ![t] = Request(pc, inflight[t].segment_id, inflight[t].view,
                                     inflight[t].text, master)]

Without(t) == [x \in Busy \ {t} |-> inflight[x]]

\* save_segment: a thread takes a request and validates it
Accept(t) ==
    /\ nops < MaxOps
    /\ nops' = nops + 1
    /\ t \notin Busy
    /\ \E segment_id \in SegmentIds, view \in Views, text \in ThreadTexts :
          inflight' = [x \in Busy \cup {t} |->
                          IF x = t THEN Request("save", segment_id, view, text, <<>>)
                          ELSE inflight[x]]
    /\ UNCHANGED <<graph, edits, stored_edits, stored_master, state, stored_state, last,
                   saved_ids, consensus, build, images, runtime>>

\* a request arrives while another is being handled
Receive == Busy # Threads /\ \E t \in Threads : Accept(t)

\* a request arrives when no other is being handled
ReceiveAlone == Busy = {} /\ \E t \in Threads : Accept(t)

\* save: _save_line or _save_word on the Edits of the runtime
Mutate ==
    \E t \in Busy :
        /\ inflight[t].pc = "save"
        /\ edits' = save(edits, inflight[t].segment_id, inflight[t].view, inflight[t].text).edits
        /\ inflight' = AtPc(t, "write_edits", <<>>)
        /\ UNCHANGED <<graph, stored_edits, stored_master, state, stored_state, last,
                       saved_ids, nops, consensus, build, images, runtime>>

\* _persist: self.store.write_edits(self.edits)
WriteEdits ==
    \E t \in Busy :
        /\ inflight[t].pc = "write_edits"
        /\ stored_edits' = edits
        /\ inflight' = AtPc(t, "compose", <<>>)
        /\ UNCHANGED <<graph, edits, stored_master, state, stored_state, last,
                       saved_ids, nops, consensus, build, images, runtime>>

\* _persist: master_text = self.compose_master_text()
Compose ==
    \E t \in Busy :
        /\ inflight[t].pc = "compose"
        /\ inflight' = AtPc(t, "write_master", compose_master_text(edits).value)
        /\ UNCHANGED <<graph, edits, stored_edits, stored_master, state, stored_state, last,
                       saved_ids, nops, consensus, build, images, runtime>>

\* _persist: self.store.write_master(master_text); then the handler navigates
\* with its default action, persists the state and responds
WriteMaster ==
    \E t \in Busy :
        LET r == inflight[t]
            next_id == navigate(edits, r.view, r.segment_id, "save")
        IN /\ r.pc = "write_master"
           /\ stored_master' = r.master
           /\ state' = NavState(r.view, next_id)
           /\ stored_state' = NavState(r.view, next_id)
           /\ last' = Op("save", r.segment_id, r.view, r.text, "save", next_id, <<>>, FALSE)
           /\ saved_ids' = saved_ids \cup {r.segment_id}
           /\ inflight' = Without(t)
           /\ UNCHANGED <<graph, edits, stored_edits, nops, consensus, build, images, runtime>>

\* write_master raises OSError, or the process is stopped, after write_edits:
\* nothing catches it in save or _persist, the request ends with the error
StopBeforeMaster ==
    \E t \in Busy :
        LET r == inflight[t]
        IN /\ r.pc \in {"compose", "write_master"}
           /\ last' = Op("save", r.segment_id, r.view, r.text, "save", "", <<>>, TRUE)
           /\ inflight' = Without(t)
           /\ UNCHANGED <<graph, edits, stored_edits, stored_master, state, stored_state,
                          saved_ids, nops, consensus, build, images, runtime>>

\* one request at a time, its storage steps one by one
NextSteps == ReceiveAlone \/ Mutate \/ WriteEdits \/ Compose \/ WriteMaster \/ StopBeforeMaster

SpecSteps == InitEdit /\ [][NextSteps]_vars

\* the threads of the server, each handling a request
NextThreads == Receive \/ Mutate \/ WriteEdits \/ Compose \/ WriteMaster

SpecThreads == InitEdit /\ [][NextThreads]_vars

(***************************************************************************)
(* Vocabulary of the properties.  The tokens of a text are stated here as  *)
(* its maximal runs of non-whitespace atoms, not by the scan of split.     *)
(***************************************************************************)
TokenRuns(text) ==
    {r \in (1..Len(text)) \X (1..Len(text)) :
        /\ r[1] <= r[2]
        /\ \A i \in r[1]..r[2] : text[i] \notin Whitespace
        /\ (r[1] = 1 \/ text[r[1] - 1] \in Whitespace)
        /\ (r[2] = Len(text) \/ text[r[2] + 1] \in Whitespace)}

TokenCount(text) == Cardinality(TokenRuns(text))

\* the j-th token, j in 1..TokenCount(text)
NthToken(text, j) ==
    LET r == CHOOSE q \in TokenRuns(text) :
                 Cardinality({o \in TokenRuns(text) : o[1] < q[1]}) = j - 1
    IN SubSeq(text, r[1], r[2])

\* tokens a..b of the text with one space between neighbours
RECURSIVE Spaced(_, _, _)
Spaced(text, a, b) ==
    IF a = b THEN NthToken(text, b)
    ELSE Spaced(text, a, b - 1) \o <<" ">> \o NthToken(text, b)

IsLine(id) == id \in SegmentIds /\ segments_by_id[id].view = "line"

IsWord(id) == id \in SegmentIds /\ segments_by_id[id].view = "word"

WordIds(id) == segments_by_id[id].word_ids

\* the 1-based place of x in seq (its first), 0 when absent
Place(seq, x) ==
    IF InSeq(x, seq) THEN CHOOSE i \in 1..Len(seq) : seq[i] = x /\ \A j \in 1..(i - 1) : seq[j] # x
    ELSE 0

\* the edit of a segment, else its consensus text
Current(id) == IF id \in DOMAIN edits THEN edits[id] ELSE segments_by_id[id].consensus_text

SavedLine == last.op = "save" /\ last.view = "line" /\ ~last.raised

SavedWord == last.op = "save" /\ last.view = "word" /\ ~last.raised

(***************************************************************************)
(* C1: after save(line_id, "line", text) on a line with n >= 1 children    *)
(* and a text of k tokens, every child has an edit: with k <= n, child i   *)
(* holds token i for i < k and the empty string for i >= k; with k > n,    *)
(* children 0..n-2 hold tokens 0..n-2 and the last child holds tokens      *)
(* n-1..k-1 joined by single spaces.                                       *)
(***************************************************************************)
C1_ExpectedChild(text, n, i) ==
    LET k == TokenCount(text)
    IN IF k <= n
       THEN IF i <= k THEN NthToken(text, i) ELSE <<>>
       ELSE IF i < n THEN NthToken(text, i) ELSE Spaced(text, n, k)

C1_LineSaveDistributesTokens ==
    (SavedLine /\ IsLine(last.segment_id) /\ WordIds(last.segment_id) # <<>>) =>
        LET word_ids == WordIds(last.segment_id)
        IN \A i \in 1..Len(word_ids) :
              /\ word_ids[i] \in DOMAIN edits
              /\ edits[word_ids[i]] = C1_ExpectedChild(last.text, Len(word_ids), i)

\* a line of two words saved with three tokens
C1_Witness ==
    /\ SavedLine /\ IsLine(last.segment_id)
    /\ Len(WordIds(last.segment_id)) = 2
    /\ TokenCount(last.text) = 3
    /\ edits[WordIds(last.segment_id)[2]] = <<"beta", " ", "alpha">>

(***************************************************************************)
(* C2: after save(word_id, "word", X) on a word with a known parent line,  *)
(* get_text(word_id) = X, and get_text(parent_line_id) has X as its        *)
(* space-separated token at the word's position in the parent's word_ids.  *)
(* As stated, for every X and every reachable Edits: C2_Original.  Amended *)
(* (C2_WordSaveUpdatesParent): get_text(word_id) = X for every X; the      *)
(* parent holds X at the word's position when X is one token and every     *)
(* sibling before the word currently reads as exactly one token.           *)
(***************************************************************************)
\* text.split(" "): the fields between single spaces
RECURSIVE FieldsFrom(_, _, _, _)
FieldsFrom(text, i, cur, acc) ==
    IF i > Len(text) THEN Append(acc, cur)
    ELSE IF text[i] = " " THEN FieldsFrom(text, i + 1, <<>>, Append(acc, cur))
    ELSE FieldsFrom(text, i + 1, Append(cur, text[i]), acc)

Fields(text) == FieldsFrom(text, 1, <<>>, <<>>)

\* a non-empty text without whitespace
OneToken(text) == text # <<>> /\ \A i \in 1..Len(text) : text[i] \notin Whitespace

HasParent(id) == IsWord(id) /\ id \in DOMAIN parents /\ parents[id] \in SegmentIds

\* the parent reads X at the place of the saved word
C2_ParentHoldsWord ==
    LET word_id == last.segment_id
        pos == Place(WordIds(parents[word_id]), word_id)
        parent_fields == Fields(get_text(edits, parents[word_id]).value)
    IN Len(parent_fields) >= pos /\ parent_fields[pos] = last.text

C2_Original ==
    (SavedWord /\ HasParent(last.segment_id)) =>
        /\ get_text(edits, last.segment_id).value = last.text
        /\ C2_ParentHoldsWord

C2_WordSaveUpdatesParent ==
    (SavedWord /\ HasParent(last.segment_id)) =>
        LET word_id == last.segment_id
            word_ids == WordIds(parents[word_id])
            pos == Place(word_ids, word_id)
        IN /\ get_text(edits, word_id).value = last.text
           /\ (OneToken(last.text) /\ \A j \in 1..(pos - 1) : OneToken(Current(word_ids[j])))
                 => C2_ParentHoldsWord

\* the second word of a line saved with one token, after a first word of one token
C2_Witness ==
    /\ SavedWord /\ HasParent(last.segment_id)
    /\ Place(WordIds(parents[last.segment_id]), last.segment_id) = 2
    /\ last.text = <<"alpha">>
    /\ Current(WordIds(parents[last.segment_id])[1]) = <<"beta">>
    /\ get_text(edits, parents[last.segment_id]).value = <<"beta", " ", "alpha">>

(***************************************************************************)
(* C3: after every completed save, of a line or of a word, the persisted   *)
(* Edits map equals the Edits map in memory, and the persisted master text *)
(* has one row per line id, in line-view order, each row the get_text of   *)
(* its line, the rows joined by newlines.                                  *)
(***************************************************************************)
\* text.split("\n"): the rows of a master text
RECURSIVE RowsFrom(_, _, _, _)
RowsFrom(text, i, cur, acc) ==
    IF i > Len(text) THEN Append(acc, cur)
    ELSE IF text[i] = "\n" THEN RowsFrom(text, i + 1, <<>>, Append(acc, cur))
    ELSE RowsFrom(text, i + 1, Append(cur, text[i]), acc)

Rows(text) == RowsFrom(text, 1, <<>>, <<>>)

Saved == last.op = "save" /\ ~last.raised

C3_SavePersistsEditsAndMaster ==
    Saved =>
        /\ stored_edits = edits
        /\ Len(Rows(stored_master)) = Len(orders["line"])
        /\ \A i \in 1..Len(orders["line"]) :
              Rows(stored_master)[i] = get_text(edits, orders["line"][i]).value

\* a word edited without its line: the row of the line is composed from its words
C3_Witness ==
    /\ Saved
    /\ \E i \in 1..Len(orders["line"]) :
          LET line_id == orders["line"][i]
          IN /\ line_id \notin DOMAIN edits
             /\ WordIds(line_id) # <<>>
             /\ \E j \in 1..Len(WordIds(line_id)) : WordIds(line_id)[j] \in DOMAIN edits
             /\ Rows(stored_master)[i] # segments_by_id[line_id].consensus_text
             /\ Rows(stored_master)[i] = <<"alpha", " ", "world">>

(***************************************************************************)
(* C4: in every state reachable by saves in which every child word of a    *)
(* line has an empty edit, get_text(line_id), and with it the row of that  *)
(* line in the master text, is the consensus_text of the line, not the     *)
(* empty string.                                                           *)
(***************************************************************************)
AllWordsEmpty(line_id) ==
    /\ IsLine(line_id)
    /\ WordIds(line_id) # <<>>
    /\ \A j \in 1..Len(WordIds(line_id)) :
          WordIds(line_id)[j] \in DOMAIN edits /\ edits[WordIds(line_id)[j]] = <<>>

C4_EmptyWordsRevertToConsensus ==
    Saved =>
        \A i \in 1..Len(orders["line"]) :
            AllWordsEmpty(orders["line"][i]) =>
                /\ get_text(edits, orders["line"][i]).value
                      = segments_by_id[orders["line"][i]].consensus_text
                /\ Rows(stored_master)[i] = segments_by_id[orders["line"][i]].consensus_text

(***************************************************************************)
(* C5: save(line_id, "line", text) sets Edits[line_id] to the literal text *)
(* and changes no entry of Edits other than line_id and the word_ids of    *)
(* that line; on a line with children [w0, w1] and empty Edits, saving     *)
(* "alpha beta" leaves Edits exactly {line_id: "alpha beta", w0: "alpha",  *)
(* w1: "beta"} and the row of the line in the master text is "alpha beta". *)
(***************************************************************************)
SeqRange(seq) == {seq[i] : i \in 1..Len(seq)}

AlphaBeta == <<"alpha", " ", "beta">>

C5_Scenario(e, line_id) ==
    [x \in {line_id} \cup SeqRange(WordIds(line_id)) |->
        IF x = line_id THEN AlphaBeta
        ELSE IF x = WordIds(line_id)[1] THEN <<"alpha">> ELSE <<"beta">>]

C5_LineSaveStep ==
    (nops' = nops + 1 /\ last'.op = "save" /\ last'.view = "line" /\ ~last'.raised) =>
        LET line_id == last'.segment_id
            touched == {line_id} \cup SeqRange(WordIds(line_id))
        IN /\ line_id \in DOMAIN edits' /\ edits'[line_id] = last'.text
           /\ \A x \in (DOMAIN edits \cup DOMAIN edits') \ touched :
                 x \in DOMAIN edits /\ x \in DOMAIN edits' /\ edits'[x] = edits[x]
           /\ (edits = EmptyDict /\ Len(WordIds(line_id)) = 2 /\ last'.text = AlphaBeta) =>
                 /\ edits' = C5_Scenario(edits', line_id)
                 /\ Rows(stored_master')[Place(orders["line"], line_id)] = AlphaBeta

C5_LineSaveLiteralAndFrame == [][C5_LineSaveStep]_vars

\* the scenario: the first save of a project, "alpha beta" on the line of two words
C5_Witness ==
    /\ nops = 1 /\ last.op = "save" /\ last.view = "line" /\ ~last.raised
    /\ last.text = AlphaBeta
    /\ IsLine(last.segment_id) /\ Len(WordIds(last.segment_id)) = 2
    /\ edits = C5_Scenario(edits, last.segment_id)
    /\ Cardinality(DOMAIN edits) = 3

(***************************************************************************)
(* C6: get_text(segment_id) returns the entry of Edits verbatim when there *)
(* is one; otherwise, for a line with non-empty word_ids, the single-space *)
(* join of the get_text of its children, trimmed, and the consensus_text   *)
(* of the line when that join is empty; otherwise (a word, or a line       *)
(* without children) the consensus_text of the segment.                    *)
(***************************************************************************)
C6_Expected(segment_id) ==
    IF segment_id \in DOMAIN edits THEN edits[segment_id]
    ELSE IF IsLine(segment_id) /\ WordIds(segment_id) # <<>>
    THEN LET word_ids == WordIds(segment_id)
             joined == strip(join(SP, [j \in 1..Len(word_ids) |-> Current(word_ids[j])]))
         IN IF joined # <<>> THEN joined ELSE segments_by_id[segment_id].consensus_text
    ELSE segments_by_id[segment_id].consensus_text

C6_GetTextResolution ==
    last.op = "get_text" =>
        /\ ~last.raised
        /\ last.ret_text = C6_Expected(last.segment_id)

\* get_text of an unedited line whose first word is edited
C6_Witness ==
    /\ last.op = "get_text"
    /\ IsLine(last.segment_id) /\ last.segment_id \notin DOMAIN edits
    /\ Len(WordIds(last.segment_id)) = 2
    /\ WordIds(last.segment_id)[1] \in DOMAIN edits
    /\ last.ret_text = <<"alpha", " ", "world">>

(***************************************************************************)
(* C7: once a save has targeted a segment with has_conflict = true, in     *)
(* every later state no next_issue scan returns that segment, it does not  *)
(* count for has_next_issue, and its payload reports has_conflict = false, *)
(* also when the saved text equals the consensus text of the segment.      *)
(***************************************************************************)
SavedConflicts == {s \in saved_ids : segments_by_id[s].has_conflict}

\* the unsaved conflicted ids after the 1-based place p of the order of a view
OpenAfter(view, p) ==
    {k \in (p + 1)..Len(orders[view]) :
        /\ segments_by_id[orders[view][k]].has_conflict
        /\ orders[view][k] \notin saved_ids}

C7_SavedConflictStaysResolved ==
    \A s \in SavedConflicts :
        /\ ~payload_has_conflict(edits, s)
        /\ \A view \in Views :
              /\ \A start_index \in 0..Len(orders[view]) :
                    _next_issue(edits, view, start_index) # <<s>>
              /\ \A p \in 1..Len(orders[view]) :
                    (\A k \in OpenAfter(view, p) : orders[view][k] \in DOMAIN edits)
                        => ~has_next_issue(edits, orders[view][p], view)
        /\ (last.op = "navigate" /\ last.action = "next_issue" /\ last.ret_id = s)
              => last.segment_id = s

\* a conflicted word saved with its consensus text, then looked for from the word before it
C7_Witness ==
    /\ "p000_l0001_w0000" \in SavedConflicts
    /\ edits["p000_l0001_w0000"] = segments_by_id["p000_l0001_w0000"].consensus_text
    /\ last.op = "navigate" /\ last.action = "next_issue" /\ last.view = "word"
    /\ last.segment_id = "p000_l0000_w0001"
    /\ last.ret_id = "p000_l0000_w0001"

(***************************************************************************)
(* C8: navigate(view, current_id, "next_issue") returns the first id       *)
(* strictly after the current index of the order of the view whose segment *)
(* has has_conflict = true and no entry in Edits, and current_id when      *)
(* there is none; no id at or before the current index is returned; the    *)
(* current index is 0 when current_id is not in the order.                 *)
(***************************************************************************)
\* the 1-based place navigation starts from
StartPlace(order, current_id) == IF InSeq(current_id, order) THEN Place(order, current_id) ELSE 1

Unresolved(view, p) ==
    {k \in (p + 1)..Len(orders[view]) :
        /\ segments_by_id[orders[view][k]].has_conflict
        /\ orders[view][k] \notin DOMAIN edits}

C8_NextIssueIsFirstUnresolvedAfter ==
    (last.op = "navigate" /\ last.action = "next_issue") =>
        LET order == orders[last.view]
            open == Unresolved(last.view, StartPlace(order, last.segment_id))
        IN IF open = {}
           THEN last.ret_id = last.segment_id
           ELSE \E k \in open : /\ last.ret_id = order[k]
                                 /\ \A j \in open : k <= j

\* from the first line, past a conflicted line that has an edit, to the conflicted line after it
C8_Witness ==
    /\ last.op = "navigate" /\ last.action = "next_issue" /\ last.view = "line"
    /\ Len(orders["line"]) = 3
    /\ last.segment_id = orders["line"][1]
    /\ segments_by_id[orders["line"][2]].has_conflict
    /\ orders["line"][2] \in DOMAIN edits
    /\ last.ret_id = orders["line"][3]

(***************************************************************************)
(* C9: on a non-empty order, navigate(view, current_id, "prev") returns    *)
(* order[max(i-1, 0)] and "next" returns order[min(i+1, len-1)], i the     *)
(* index of current_id in the order, 0 when it is absent; so "prev" of the *)
(* first id is the first id and "next" of the last id is the last id; on   *)
(* an empty order current_id is returned unchanged.                        *)
(***************************************************************************)
C9_PrevNextClamped ==
    (last.op = "navigate" /\ last.action \in {"prev", "next"}) =>
        LET order == orders[last.view]
            p == StartPlace(order, last.segment_id)
        IN /\ ~last.raised
           /\ IF order = <<>>
              THEN last.ret_id = last.segment_id
              ELSE /\ InSeq(last.ret_id, order)
                   /\ last.action = "prev" =>
                         last.ret_id = (IF p = 1 THEN order[1] ELSE order[p - 1])
                   /\ last.action = "next" =>
                         last.ret_id = (IF p = Len(order) THEN order[Len(order)] ELSE order[p + 1])

\* "next" from the last id of an order of several ids
C9_Witness ==
    /\ last.op = "navigate" /\ last.action = "next"
    /\ Len(orders[last.view]) >= 2
    /\ last.segment_id = orders[last.view][Len(orders[last.view])]
    /\ last.ret_id = last.segment_id

(***************************************************************************)
(* C10: switch_view(current, target_view) returns, for target "line":      *)
(* current when it is a line, its parent line when it is a word with an    *)
(* entry in the parent map, else the first id of the line order; for       *)
(* target "word": current when it is a word, the first of its word_ids     *)
(* when it is a line with word_ids, else the first id of the word order;   *)
(* and current unchanged when none is derived and the target order is      *)
(* empty.                                                                  *)
(***************************************************************************)
C10_Expected(current, target_view) ==
    LET first_or_current == IF orders[target_view] # <<>> THEN orders[target_view][1] ELSE current
    IN IF target_view = "line"
       THEN IF IsLine(current) THEN current
            ELSE IF IsWord(current) /\ current \in DOMAIN parents THEN parents[current]
            ELSE first_or_current
       ELSE IF IsWord(current) THEN current
            ELSE IF IsLine(current) /\ WordIds(current) # <<>> THEN WordIds(current)[1]
            ELSE first_or_current

C10_SwitchViewTarget ==
    last.op = "switch_view" => last.ret_id = C10_Expected(last.segment_id, last.view)

\* a word without a parent switched to the line view: the first line
C10_Witness ==
    /\ last.op = "switch_view" /\ last.view = "line"
    /\ IsWord(last.segment_id) /\ last.segment_id \notin DOMAIN parents
    /\ orders["line"] # <<>>
    /\ last.ret_id = orders["line"][1]

(***************************************************************************)
(* C11: for every line L with non-empty word_ids, switching from L to the  *)
(* word view and from the segment that gives back to the line view returns *)
(* L, whatever the Edits and the NavigationState are.                      *)
(***************************************************************************)
\* the step that switches back to the line view from the result of a switch
\* of a line with words to the word view
C11_RoundTripStep ==
    (/\ last.op = "switch_view" /\ last.view = "word"
     /\ IsLine(last.segment_id) /\ WordIds(last.segment_id) # <<>>
     /\ last'.op = "switch_view" /\ last'.view = "line" /\ nops' = nops + 1
     /\ last'.segment_id = last.ret_id)
        => last'.ret_id = last.segment_id

C11_SwitchViewRoundTrip ==
    /\ [][C11_RoundTripStep]_vars
    /\ [](\A L \in SegmentIds :
            (IsLine(L) /\ WordIds(L) # <<>>) =>
                switch_view(switch_view(L, "word"), "line") = L)

\* back on the second line of the project, from its first word, with edits made
C11_Witness ==
    /\ last.op = "switch_view" /\ last.view = "line"
    /\ IsWord(last.segment_id)
    /\ IsLine(last.ret_id) /\ WordIds(last.ret_id) # <<>>
    /\ WordIds(last.ret_id)[1] = last.segment_id
    /\ last.ret_id # orders["line"][1]
    /\ state = NavState("line", last.ret_id)
    /\ edits # EmptyDict

(***************************************************************************)
(* C12: the NavigationState changes only through navigate, switch_view or  *)
(* a jump from the request layer, and every change is persisted at once:   *)
(* after each completed operation, the construction of the runtime with    *)
(* its corrections included, the stored NavigationState equals the one in  *)
(* memory.                                                                 *)
(***************************************************************************)
C12_StateAlwaysPersisted == stored_state = state

(***************************************************************************)
(* C13: navigation_status(segment_id, view) has its three flags false when *)
(* the view is neither "line" nor "word", when the order of the view is    *)
(* empty, or when segment_id is not in that order; otherwise can_prev is   *)
(* index > 0, can_next is index < len - 1, and has_next_issue is true      *)
(* exactly when an unresolved conflict lies after the index.               *)
(***************************************************************************)
C13_NavigationStatusFlags ==
    last.op = "navigation_status" =>
        IF last.view \notin {"line", "word"}
        THEN last.status = Status(FALSE, FALSE, FALSE)
        ELSE LET order == orders[last.view]
                 p == Place(order, last.segment_id)
             IN IF p = 0
                THEN last.status = Status(FALSE, FALSE, FALSE)
                ELSE /\ last.status.can_prev = (p > 1)
                     /\ last.status.can_next = (p < Len(order))
                     /\ last.status.has_next_issue = (Unresolved(last.view, p) # {})

\* the middle line of three, the conflicted line after it having an edit
C13_Witness ==
    /\ last.op = "navigation_status" /\ last.view = "line"
    /\ Len(orders["line"]) = 3
    /\ last.segment_id = orders["line"][2]
    /\ segments_by_id[orders["line"][3]].has_conflict
    /\ orders["line"][3] \in DOMAIN edits
    /\ last.status = Status(TRUE, TRUE, FALSE)

(***************************************************************************)
(* C14: save or get_text with a segment id that is not in the graph        *)
(* signals NotFound to the caller, and the failed call leaves the Edits in *)
(* memory, the persisted Edits and the persisted master text unchanged.    *)
(***************************************************************************)
C14_UnknownIdStep ==
    (/\ nops' = nops + 1
     /\ last'.op \in {"save", "get_text"}
     /\ last'.segment_id \notin SegmentIds)
        => /\ last'.raised
           /\ edits' = edits
           /\ stored_edits' = stored_edits
           /\ stored_master' = stored_master

C15_InvalidViewStep ==
    (/\ nops' = nops + 1
     /\ last'.op = "save"
     /\ last'.view \notin {"line", "word"})
        => /\ last'.raised
           /\ edits' = edits
           /\ stored_edits' = stored_edits
           /\ stored_master' = stored_master

C15_InvalidViewRejected == [][C15_InvalidViewStep]_vars

(***************************************************************************)
(* C16: save stores the updated Edits map and the updated master text as   *)
(* one atomic unit of work: no persisted state can be observed, also when  *)
(* the operation fails or stops between its storage steps, in which the    *)
(* stored Edits reflect the save and the stored master text does not.      *)
(***************************************************************************)
\* the stored master text is the one composed from the stored Edits
StoredPairAgrees ==
    /\ Len(Rows(stored_master)) = Len(orders["line"])
    /\ \A i \in 1..Len(orders["line"]) :
          Rows(stored_master)[i] = get_text(stored_edits, orders["line"][i]).value

C16_StoredEditsAndMasterAtomic == (Busy = {}) => StoredPairAgrees

(***************************************************************************)
(* C17: each operation on the runtime of a project runs to completion      *)
(* before the next is processed; two requests for one project never        *)
(* interleave, so after any set of concurrent save requests, all of them   *)
(* answered, the persisted Edits and the persisted master text reflect the *)
(* same set of edits.                                                      *)
(***************************************************************************)
C17_ConcurrentSavesAgree ==
    (Busy = {} /\ last.op = "save" /\ ~last.raised) =>
        /\ stored_edits = edits
        /\ StoredPairAgrees

(***************************************************************************)
(* The word consensus of one line, computed once when the project is       *)
(* built: the base tokens and the texts of the other models are drawn when *)
(* it is computed, and kept with its result.                               *)
(***************************************************************************)
MaxTokens == 3

\* every sequence of exactly n members of S
RECURSIVE SeqsOfLen(_, _)
SeqsOfLen(S, n) ==
    IF n = 0 THEN {<<>>}
    ELSE {Append(q, x) : q \in SeqsOfLen(S, n - 1), x \in S}

\* every sequence of at most n members of S
SeqsUpTo(S, n) == UNION {SeqsOfLen(S, k) : k \in 0..n}

\* the words the base model reads
BaseWords == {<<"the">>, <<"quick">>, <<"brown">>}

\* the words another model reads
ModelWords == {<<"the">>, <<"quick">>, <<"fast">>, <<"red">>}

\* the base tokens of a line
BaseTokens(words) == [k \in 1..Len(words) |-> BaseToken(words[k], 0, k - 1)]

\* the texts of the first other model
ModelTexts == {join(SP, q) : q \in SeqsUpTo(ModelWords, MaxTokens)} \cup {<<" ">>}

\* what a second model adds to model_texts
SecondModels ==
    {<<>>,
     <<[model |-> "model2", text |-> <<"the", " ", "red">>]>>,
     <<[model |-> "model2", text |-> <<"quick", "\t", "fast", " ", "brown">>]>>}

\* a line and a reading of it with a word the base does not have
ScenarioWords == {<<<<"hello">>, <<"world">>>>}

ScenarioTexts == {<<"hello", " ", "beautiful", " ", "world">>}

\* compute_word_consensus(base_tokens, model_texts)
ComputeConsensus ==
    /\ ~consensus.done
    /\ \E words \in SeqsUpTo(BaseWords, MaxTokens) \cup ScenarioWords :
       \E text \in ModelTexts \cup ScenarioTexts \cup {join(SP, words)} :
       \E second \in SecondModels :
          LET base_tokens == BaseTokens(words)
              model_texts == <<[model |-> "model1", text |-> text]>> \o second
          IN consensus' = [base_words |-> words,
                           model_texts |-> model_texts,
                           result |-> compute_word_consensus(base_tokens, model_texts),
                           done |-> TRUE]
    /\ UNCHANGED <<graph, edits, stored_edits, stored_master, state, stored_state,
                   last, saved_ids, nops, inflight, build, images, runtime>>

NextConsensus == ComputeConsensus

\* the project of one line, its consensus not computed yet
InitConsensus ==
    /\ \E g \in {GraphLinesOnly} : Construct(g, NoState)
    /\ last = Idle

SpecConsensus == InitConsensus /\ [][NextConsensus]_vars

(***************************************************************************)
(* Vocabulary of the claims on the consensus.                              *)
(***************************************************************************)
\* the texts the models give for an entry
AltTexts(entry) == {entry.alternatives[k].text : k \in 1..Len(entry.alternatives)}

\* the opcodes between the base words and the tokens of the k-th model
OpcodesOf(k) ==
    IF consensus.model_texts[k].text = <<>> THEN <<>>
    ELSE get_opcodes(consensus.base_words, tokenize(consensus.model_texts[k].text))

\* the tags of the opcodes of every model
TagsSeen ==
    {OpcodesOf(k)[n].tag : <<k, n>> \in
        {p \in (1..Len(consensus.model_texts)) \X (1..(2 * MaxTokens + 3)) :
            p[2] <= Len(OpcodesOf(p[1]))}}

(***************************************************************************)
(* C18: for every sequence of whitespace-free base tokens,                 *)
(* compute_word_consensus(tokens, {m: the tokens joined by single spaces}) *)
(* returns one entry per base token, in order, none with has_conflict, and *)
(* the display_text of every entry is its base.                            *)
(***************************************************************************)
C18_Case ==
    /\ consensus.done
    /\ consensus.model_texts = <<[model |-> "model1", text |-> join(SP, consensus.base_words)]>>

C18_MatchingModelHasNoConflict ==
    C18_Case =>
        /\ Len(consensus.result) = Len(consensus.base_words)
        /\ \A k \in 1..Len(consensus.result) :
              /\ consensus.result[k].base = consensus.base_words[k]
              /\ consensus.result[k].word_index = k - 1
              /\ ~has_conflict(consensus.result[k])
              /\ display_text(consensus.result[k]) = consensus.result[k].base

C18_Witness ==
    /\ C18_Case
    /\ consensus.base_words = <<<<"the">>, <<"brown">>, <<"the">>>>
    /\ display_text(consensus.result[2]) = <<"brown">>

(***************************************************************************)
(* C19: for every entry compute_word_consensus produces, through replace,  *)
(* delete and insert opcodes and for any number of models, has_conflict is *)
(* true exactly when some non-empty alternative differs from base; an      *)
(* entry whose only alternatives are deletions (empty texts) has no        *)
(* conflict and its display_text is its base.                              *)
(***************************************************************************)
C19_ConflictIffNonEmptyAlternativeDiffers ==
    consensus.done =>
        \A k \in 1..Len(consensus.result) :
            LET entry == consensus.result[k]
            IN /\ has_conflict(entry) <=>
                      (\E text \in AltTexts(entry) : text # <<>> /\ text # entry.base)
               /\ AltTexts(entry) = {<<>>} =>
                      /\ ~has_conflict(entry)
                      /\ display_text(entry) = entry.base

C19_Witness ==
    /\ consensus.done
    /\ Len(consensus.model_texts) = 2
    /\ {"replace", "delete", "insert"} \subseteq TagsSeen
    /\ \E k \in 1..Len(consensus.result) :
          /\ Len(consensus.result[k].alternatives) = 2
          /\ AltTexts(consensus.result[k]) = {<<>>}
          /\ display_text(consensus.result[k]) = consensus.result[k].base
    /\ \E k \in 1..Len(consensus.result) : has_conflict(consensus.result[k])

(***************************************************************************)
(* C20: in a replace span the base and model tokens are paired one to one  *)
(* over the overlapping prefix, the surplus model tokens are joined by     *)
(* spaces and appended to (not written over) the alternative of the last   *)
(* base entry of the span, and surplus base entries get the alternative    *)
(* "".  Base the, quick, brown with model1 = "the fast red" gives          *)
(* conflicts at indices 1 and 2 with alternatives {model1: fast} and       *)
(* {model1: red}, and no conflict at index 0.                              *)
(***************************************************************************)
\* what the model of the tokens has for the o-th base entry of the span
C20_Expected(tokens, op, o) ==
    LET nbase == op.i2 - op.i1
        nmodel == op.j2 - op.j1
    IN IF o >= nmodel THEN <<>>
       ELSE IF o = nbase - 1 /\ nmodel > nbase
       THEN join(SP, <<tokens[op.j1 + o + 1], join(SP, Slice(tokens, op.j1 + nbase, op.j2))>>)
       ELSE tokens[op.j1 + o + 1]

C20_ReplaceSpanPairing ==
    consensus.done =>
        /\ \A m \in 1..Len(consensus.model_texts) :
              LET ops == OpcodesOf(m)
                  tokens == tokenize(consensus.model_texts[m].text)
              IN \A n \in 1..Len(ops) :
                    ops[n].tag = "replace" =>
                        \A o \in 0..(ops[n].i2 - ops[n].i1 - 1) :
                            LET entry == consensus.result[ops[n].i1 + o + 1]
                            IN /\ AltHas(entry.alternatives, consensus.model_texts[m].model)
                               /\ AltGet(entry.alternatives, consensus.model_texts[m].model)
                                     = C20_Expected(tokens, ops[n], o)
        /\ (/\ consensus.base_words = <<<<"the">>, <<"quick">>, <<"brown">>>>
            /\ consensus.model_texts =
                  <<[model |-> "model1", text |-> <<"the", " ", "fast", " ", "red">>]>>) =>
              /\ [k \in 1..3 |-> consensus.result[k].alternatives]
                    = << <<>>,
                         <<[model |-> "model1", text |-> <<"fast">>]>>,
                         <<[model |-> "model1", text |-> <<"red">>]>> >>
              /\ [k \in 1..3 |-> has_conflict(consensus.result[k])] = <<FALSE, TRUE, TRUE>>

C20_Witness ==
    /\ consensus.done
    /\ consensus.base_words = <<<<"quick">>, <<"brown">>>>
    /\ consensus.model_texts =
          <<[model |-> "model1", text |-> <<"fast", " ", "red", " ", "the">>]>>
    /\ OpcodesOf(1) = <<Opcode("replace", 0, 2, 0, 3)>>
    /\ AltGet(consensus.result[2].alternatives, "model1") = <<"red", " ", "the">>

(***************************************************************************)
(* C21: tokens only the model has (an insert opcode) are joined by spaces  *)
(* and appended to the alternative of the base entry just before the       *)
(* insertion point, index max(i1 - 1, 0), the first entry when the         *)
(* insertion precedes everything; the insertion changes no other entry.    *)
(* Base hello, world with model1 = "hello beautiful world" puts beautiful  *)
(* in the alternatives of index 0 and leaves index 1 as it was; with no    *)
(* base tokens the result is empty.                                        *)
(***************************************************************************)
\* the joined tokens of the insert opcodes whose entry is e, in order
RECURSIVE C21_Inserted(_, _, _)
C21_Inserted(ops, tokens, e) ==
    IF ops = <<>> THEN <<>>
    ELSE (IF ops[1].tag = "insert" /\ Max(ops[1].i1 - 1, 0) = e
          THEN <<join(SP, Slice(tokens, ops[1].j1, ops[1].j2))>> ELSE <<>>)
         \o C21_Inserted(Tail(ops), tokens, e)

C21_InsertedTokensGoToPrecedingEntry ==
    consensus.done =>
        /\ consensus.base_words = <<>> => consensus.result = <<>>
        /\ \A m \in 1..Len(consensus.model_texts) :
              LET ops == OpcodesOf(m)
                  tokens == tokenize(consensus.model_texts[m].text)
                  model_name == consensus.model_texts[m].model
              IN \A n \in 1..Len(ops) :
                    /\ (ops[n].tag = "insert" /\ consensus.base_words # <<>>) =>
                          \E q \in 1..Len(ops) :
                              /\ ops[q].tag = "equal"
                              /\ ops[q].i1 <= Max(ops[n].i1 - 1, 0)
                              /\ Max(ops[n].i1 - 1, 0) < ops[q].i2
                    /\ ops[n].tag = "equal" =>
                          \A e \in ops[n].i1..(ops[n].i2 - 1) :
                              LET inserted == C21_Inserted(ops, tokens, e)
                                  alternatives == consensus.result[e + 1].alternatives
                              IN IF inserted = <<>>
                                 THEN ~AltHas(alternatives, model_name)
                                 ELSE /\ AltHas(alternatives, model_name)
                                      /\ AltGet(alternatives, model_name) = join(SP, inserted)
                    /\ ops[n].tag = "delete" =>
                          \A e \in ops[n].i1..(ops[n].i2 - 1) :
                              /\ AltHas(consensus.result[e + 1].alternatives, model_name)
                              /\ AltGet(consensus.result[e + 1].alternatives, model_name) = <<>>
        /\ (/\ consensus.base_words = <<<<"hello">>, <<"world">>>>
            /\ consensus.model_texts =
                  <<[model |-> "model1", text |-> <<"hello", " ", "beautiful", " ", "world">>]>>) =>
              [k \in 1..2 |-> consensus.result[k].alternatives]
                 = << <<[model |-> "model1", text |-> <<"beautiful">>]>>, <<>> >>

C21_Witness ==
    /\ consensus.done
    /\ consensus.base_words = <<<<"hello">>, <<"world">>>>
    /\ consensus.model_texts =
          <<[model |-> "model1", text |-> <<"hello", " ", "beautiful", " ", "world">>]>>
    /\ OpcodesOf(1) = <<Opcode("equal", 0, 1, 0, 1), Opcode("insert", 1, 1, 1, 2),
                        Opcode("equal", 1, 2, 2, 3)>>
    /\ AltGet(consensus.result[1].alternatives, "model1") = <<"beautiful">>
    /\ consensus.result[2].alternatives = <<>>

(***************************************************************************)
(* The processing of the pages of a project, before any runtime exists.    *)
(* process_inputs is given the results of the engine for the pages and may *)
(* be run again on the same pages; _build_segments is also called on the   *)
(* lines of one page with a consensus that holds alternatives.             *)
(***************************************************************************)
MaxPages == 2

\* what image_to_data reports for a page: its lines, each with its words
OcrRows ==
    {<<>>,
     << <<<<"the">>, <<"quick">>>> >>,
     << <<<<"the">>>>, <<<<"quick">>, <<"brown">>>> >>,
     << <<<<"the">>, <<"quick">>>>, <<<<"brown">>>>, <<<<"the">>>> >>}

\* what the command line writes for a page
OcrTexts == {<<"the", " ", "quick", "\n", "brown">>, <<" ">>}

\* the results run_tesseract returns for a page
OcrPages ==
    {run_tesseract_data(rows) : rows \in OcrRows}
    \cup {run_tesseract_cli(text) : text \in OcrTexts}

\* the lines of the page _build_segments is called on
LineRows ==
    {<<words>> : words \in SeqsUpTo(BaseWords, MaxTokens) \ {<<>>}}
    \cup {<< <<<<"the">>, <<"quick">>>>, <<<<"brown">>>> >>}

\* the texts of the other models for that page
LineModelTexts ==
    {<<>>}
    \cup {<<[model |-> "model1", text |-> join(SP, q)]>> \o second :
             q \in SeqsUpTo({<<"the">>, <<"fast">>}, MaxTokens),
             second \in {<<>>, <<[model |-> "model2", text |-> <<"the", " ", "red">>]>>}}

\* what is known of a run of process_inputs: its pages, what it wrote, and
\* what the run before it, if any, wrote
Built(pages, written, before) ==
    [NoBuild EXCEPT !.op = "process_inputs",
                    !.pages = pages,
                    !.segments = written.segments,
                    !.master = written.master,
                    !.state = written.state,
                    !.runs = before.runs + 1,
                    !.previous = IF before.op = "none" THEN <<>>
                                 ELSE <<[segments |-> before.segments,
                                         master |-> before.master]>>]

\* process_inputs
ProcessInputs ==
    /\ nops < MaxOps
    /\ nops' = nops + 1
    /\ build.op \in {"none", "process_inputs"}
    /\ \E pages \in (IF build.op = "none" THEN SeqsUpTo(OcrPages, MaxPages) ELSE {build.pages}) :
          /\ build' = Built(pages, process_inputs(pages), build)
          /\ stored_master' = build'.master
          /\ stored_state' = IF stored_state = NoState THEN build'.state ELSE stored_state
    /\ UNCHANGED <<graph, edits, stored_edits, state, last, saved_ids, inflight, consensus, images, runtime>>

\* _build_segments on the lines of page 0 and their consensus
BuildSegments ==
    /\ nops < MaxOps
    /\ nops' = nops + 1
    /\ build.op = "none"
    /\ \E rows \in LineRows, model_texts \in LineModelTexts :
          LET normalized == _normalize_segments(run_tesseract_data(rows))
              word_consensus == compute_word_consensus(normalized.base_tokens, model_texts)
              built == _build_segments(0, normalized.lines, word_consensus)
          IN build' = [NoBuild EXCEPT !.op = "_build_segments",
                                     !.lines = normalized.lines,
                                     !.word_consensus = word_consensus,
                                     !.segments = built.word_segments \o built.line_segments,
                                     !.runs = 1]
    /\ UNCHANGED <<graph, edits, stored_edits, stored_master, state, stored_state, last,
                   saved_ids, inflight, consensus, images, runtime>>

\* a project directory whose pages have not been processed: no runtime yet
InitBuild ==
    /\ segments = <<>>
    /\ segments_by_id = index_segments(<<>>)
    /\ orders = [line |-> <<>>, word |-> <<>>]
    /\ parents = index_parents(<<>>)
    /\ edits = EmptyDict
    /\ stored_edits = EmptyDict
    /\ stored_master = <<>>
    /\ state = NoState
    /\ stored_state = NoState
    /\ saved_ids = {}
    /\ nops = 0
    /\ inflight = NoRequests
    /\ consensus = NoConsensus
    /\ build = NoBuild
    /\ images = NoImages
    /\ runtime = NoRuntime
    /\ last = Idle

NextBuild == ProcessInputs \/ BuildSegments

SpecBuild == InitBuild /\ [][NextBuild]_vars

(***************************************************************************)
(* Vocabulary of the claims on the built segments.                         *)
(***************************************************************************)
\* the positions of the built segments of a view
BuiltAt(view) == {i \in 1..Len(build.segments) : build.segments[i].view = view}

\* the word segments that belong to the line segment at position i
WordsOfLineAt(i) ==
    {j \in BuiltAt("word") :
        /\ build.segments[j].page_index = build.segments[i].page_index
        /\ build.segments[j].line_index = build.segments[i].line_index}

\* the line segments that list the id
ListingLines(id) == {i \in BuiltAt("line") : InSeq(id, build.segments[i].word_ids)}

(***************************************************************************)
(* C22: for every page the builder builds, the word_ids of each line       *)
(* segment are exactly the ids of its word segments in ascending           *)
(* word_index, every word id is in the word_ids of exactly one line, the   *)
(* page_index and line_index of a word are those of its parent line, and   *)
(* the ids have the forms pPPP_lLLLL and pPPP_lLLLL_wWWWW, so that the line *)
(* id recomputed from a word's page_index and line_index is its parent's.  *)
(***************************************************************************)
C22_WordIdsAreTheLinesWords ==
    build.op # "none" =>
        /\ \A i \in BuiltAt("line") :
              LET line == build.segments[i]
              IN /\ line.segment_id = _segment_id(line.page_index, line.line_index, <<>>, "line")
                 /\ Len(line.word_ids) = Cardinality(WordsOfLineAt(i))
                 /\ \A k \in 1..Len(line.word_ids) :
                       \E j \in WordsOfLineAt(i) :
                           /\ build.segments[j].segment_id = line.word_ids[k]
                           /\ Cardinality({n \in WordsOfLineAt(i) :
                                   build.segments[n].word_index[1]
                                      < build.segments[j].word_index[1]}) = k - 1
        /\ \A j \in BuiltAt("word") :
              LET word == build.segments[j]
              IN /\ word.segment_id
                       = _segment_id(word.page_index, word.line_index, word.word_index, "word")
                 /\ Cardinality(ListingLines(word.segment_id)) = 1
                 /\ \A i \in ListingLines(word.segment_id) :
                       /\ build.segments[i].page_index = word.page_index
                       /\ build.segments[i].line_index = word.line_index
                       /\ build.segments[i].segment_id
                             = _segment_id(word.page_index, word.line_index, <<>>, "line")
                       /\ Cardinality({k \in 1..Len(build.segments[i].word_ids) :
                               build.segments[i].word_ids[k] = word.segment_id}) = 1
        /\ \A i, j \in 1..Len(build.segments) :
              build.segments[i].segment_id = build.segments[j].segment_id => i = j

C22_Witness ==
    /\ build.op = "process_inputs"
    /\ Len(build.pages) = 2
    /\ \E i \in BuiltAt("line") :
          /\ build.segments[i].page_index = 1
          /\ build.segments[i].line_index = 1
          /\ build.segments[i].word_ids = <<"p001_l0001_w0000", "p001_l0001_w0001">>
    /\ \E j \in BuiltAt("word") : build.segments[j].segment_id = "p001_l0001_w0001"

(***************************************************************************)
(* C23: the alternatives of a line segment hold, for each model, the       *)
(* per-word alternative texts of that model joined by spaces in word       *)
(* order, where a word that has no alternative of that model gives its own *)
(* base text as filler: the text of a model has one contribution for each  *)
(* word of the line.                                                       *)
(***************************************************************************)
\* one text for each word: the alternative of the model, else the base of the word
RECURSIVE C23_Expected(_, _)
C23_Expected(entries, model) ==
    IF entries = <<>> THEN <<>>
    ELSE (IF AltHas(entries[1].alternatives, model)
             /\ AltGet(entries[1].alternatives, model) # <<>>
          THEN <<AltGet(entries[1].alternatives, model)>>
          ELSE <<entries[1].base>>)
         \o C23_Expected(Tail(entries), model)

\* the consensus entries of the line segment, in word order
C23_Entries(line) == SortByWordIndex(EntriesOfLine(build.word_consensus, line.line_index))

C23_LineAlternativesWordAligned ==
    build.op = "_build_segments" =>
        \A i \in BuiltAt("line") :
            \A k \in 1..Len(build.segments[i].alternatives) :
                /\ build.segments[i].alternatives[k].text
                      = join(SP, C23_Expected(
                                    C23_Entries(build.segments[i]),
                                    build.segments[i].alternatives[k].model))
                /\ Len(ComposeTokens(C23_Entries(build.segments[i]),
                                     build.segments[i].alternatives[k].model))
                      = Len(build.segments[i].word_ids)

HasEditedChild(line_id) ==
    \E i \in 1..Len(WordIds(line_id)) : WordIds(line_id)[i] \in DOMAIN edits

C27_RoundMade == last'.op = "save_segment"

\* the round went to the first unresolved conflict after the cursor, or, where
\* there is none, stayed and ended the loop
C27_Round ==
    LET view == state.view
        p == Place(orders[view], state.segment_id)
        q == Place(orders[view], state'.segment_id)
        open == Unresolved(view, p)
    IN /\ ~last'.raised
       /\ state'.view = view
       /\ IF open = {}
          THEN /\ q = p
               /\ navigate(edits', view, state'.segment_id, "next_issue") = state'.segment_id
               /\ ~navigation_status(edits', state'.segment_id, view).has_next_issue
          ELSE /\ q > p
               /\ q \in open
               /\ \A k \in open : q <= k

C27_NothingReopens ==
    /\ DOMAIN edits \subseteq DOMAIN edits'
    /\ \A id \in DOMAIN edits : id \in DOMAIN edits'
    /\ \A view \in Views : Unresolved(view, 0)' \subseteq Unresolved(view, 0)

\* where the loop stops
C27_Ended ==
    /\ LoopOver
    /\ navigate(edits, state.view, state.segment_id, "next_issue") = state.segment_id
    /\ ~navigation_status(edits, state.segment_id, state.view).has_next_issue

C27_ReviewLoopTerminates ==
    /\ [][C27_NothingReopens /\ (C27_RoundMade => C27_Round)]_vars
    /\ <>C27_Ended

\* the loop over three words, two of them conflicted, has ended on the last
C27_Witness ==
    /\ C27_Ended
    /\ state.view = "word"
    /\ Len(orders["word"]) = 3
    /\ state.segment_id = orders["word"][3]
    /\ \A k \in 1..3 : orders["word"][k] \in saved_ids
    /\ segments_by_id[orders["word"][2]].has_conflict
    /\ nops = 4

(***************************************************************************)
(* C28: with both view orders non-empty, a well-formed collection and      *)
(* requests that name a segment of the view they name, from the            *)
(* construction of the runtime on, the view of the NavigationState is      *)
(* "line" or "word" and its segment id is in the order of that view.       *)
(***************************************************************************)
C28_StateNamesSegmentOfItsView ==
    /\ state.view \in {"line", "word"}
    /\ InSeq(state.segment_id, orders[state.view])

(***************************************************************************)
(* A project that has been processed and is served: the runtime is         *)
(* constructed on the files process_inputs wrote, with no edits.           *)
(***************************************************************************)
\* the lines of a page built with the texts of other models
BuiltRows ==
    {<< <<<<"the">>, <<"quick">>>> >>,
     << <<<<"the">>, <<"quick">>>>, <<<<"brown">>>> >>}

BuiltModelTexts ==
    {<<[model |-> "model1", text |-> text]>> :
        text \in {<<"the", " ", "fast">>, <<"the">>, <<"the", " ", "quick", " ", "fast">>}}

\* process_inputs on one page, had the texts of other models been passed on
process_page_with_models(rows, model_texts) ==
    LET normalized == _normalize_segments(run_tesseract_data(rows))
        built == _build_segments(0, normalized.lines,
                     compute_word_consensus(normalized.base_tokens, model_texts))
    IN Persisted(built.word_segments \o built.line_segments)

\* what the project directory holds after processing
BuiltProjects ==
    {process_inputs(pages) : pages \in SeqsUpTo(OcrPages, MaxPages) \ {<<>>}}
    \cup {process_page_with_models(rows, model_texts) :
             rows \in BuiltRows, model_texts \in BuiltModelTexts}

\* ProjectRuntime.__init__ on the files written
Serve(written) ==
    /\ written.segments # <<>>
    /\ segments = written.segments
    /\ segments_by_id = index_segments(written.segments)
    /\ orders = [line |-> _ordered_ids(written.segments, "line"),
                 word |-> _ordered_ids(written.segments, "word")]
    /\ parents = index_parents(written.segments)
    /\ edits = EmptyDict
    /\ stored_edits = EmptyDict
    /\ stored_master = written.master
    /\ state = ensure_state(written.state, written.state).state
    /\ stored_state = ensure_state(written.state, written.state).stored_state
    /\ saved_ids = {}
    /\ nops = 0
    /\ build = [NoBuild EXCEPT !.op = "process_inputs", !.segments = written.segments,
                               !.master = written.master, !.state = written.state, !.runs = 1]

\* the first save of the project
FirstSave ==
    /\ edits = EmptyDict
    /\ Save

InitBuilt ==
    /\ \E written \in BuiltProjects : Serve(written)
    /\ inflight = NoRequests
    /\ consensus = NoConsensus
    /\ images = NoImages
    /\ runtime = NoRuntime
    /\ last = Idle

NextBuilt == FirstSave

SpecBuilt == InitBuilt /\ [][NextBuilt]_vars

(***************************************************************************)
(* C29: with no edits, get_text of every line the builder produced is the  *)
(* line's stored consensus text, so the master text the runtime composes   *)
(* is the master text written when the project was built; and the first    *)
(* save changes the master text in no line but the one it affects.         *)
(***************************************************************************)
\* the line a segment lies on
LineOf(segment_id) ==
    _segment_id(segments_by_id[segment_id].page_index, segments_by_id[segment_id].line_index,
                <<>>, "line")

C29_RuntimeMasterIsBuiltMaster ==
    /\ edits = EmptyDict =>
          /\ \A i \in 1..Len(orders["line"]) :
                get_text(edits, orders["line"][i]).value
                   = segments_by_id[orders["line"][i]].consensus_text
          /\ compose_master_text(edits).value = build.master
          /\ stored_master = build.master
    /\ Saved =>
          /\ stored_master = compose_master_text(edits).value
          /\ Len(Rows(stored_master)) = Len(Rows(build.master))
          /\ \A i \in 1..Len(orders["line"]) :
                orders["line"][i] # LineOf(last.segment_id)
                   => Rows(stored_master)[i] = Rows(build.master)[i]

\* a word of the second of three lines has been saved with a new text: the
\* master text differs from the built one, in that line
C29_Witness ==
    /\ Saved
    /\ Len(orders["line"]) >= 3
    /\ IsWord(last.segment_id)
    /\ last.view = "word"
    /\ LineOf(last.segment_id) = orders["line"][2]
    /\ stored_master # build.master
    /\ Rows(stored_master)[2] # Rows(build.master)[2]

(***************************************************************************)
(* The image service: crop bounds of a segment on a page, and the crop.     *)
(***************************************************************************)
MaxCells == 3

\* the k-th coordinate of a grid of 15 pixels
Cell(k) == 15 * k

\* the origins a bbox can have: left of the page, on it, right of it
Origins == {Cell(-1), 1} \cup {Cell(k) : k \in 0..MaxCells}

\* the sides a bbox can have: negative, zero, and some that make each padding
Sides == {-1} \cup {Cell(k) : k \in 0..MaxCells}

BBoxes == {NoBBox} \cup {BBox(x, y, w, h) : x \in Origins, y \in Origins, w \in Sides, h \in Sides}

PageSides == {1} \cup {Cell(k) : k \in 1..MaxCells}

\* ImageService.get_crop_bounds of a segment not in the cache
GetCropBounds ==
    /\ images.op = "none"
    /\ \E bbox \in BBoxes, width \in PageSides, height \in PageSides :
          images' = [op |-> "get_crop_bounds", bbox |-> bbox, page |-> <<width, height>>,
                     crop |-> _crop_geometry(bbox, width, height), image |-> NoImage]
    /\ UNCHANGED <<graph, edits, stored_edits, stored_master, state, stored_state, last,
                   saved_ids, nops, inflight, consensus, build, runtime>>

\* ImageService.load_segment_image of the segment whose bounds are cached
LoadSegmentImage ==
    /\ images.op = "get_crop_bounds"
    /\ \E image \in ImageCrop(images.crop.left, images.crop.top, images.crop.right, images.crop.bottom) :
          images' = [images EXCEPT !.op = "load_segment_image", !.image = image]
    /\ UNCHANGED <<graph, edits, stored_edits, stored_master, state, stored_state, last,
                   saved_ids, nops, inflight, consensus, build, runtime>>

NextImages == GetCropBounds \/ LoadSegmentImage

SpecImages == InitBuild /\ [][NextImages]_vars

(***************************************************************************)
(* Claims on the crop geometry.                                            *)
(***************************************************************************)
\* C25: for every bbox, degenerate and off-page ones included, and every page
\* size, the crop bounds have left >= 0, top >= 0, right <= page width,
\* bottom <= page height, width >= 1 and height >= 1, and cropping the page
\* to (left, top, right, bottom) gives an image of exactly width x height
C25_CropIsWidthByHeight ==
    images.op = "load_segment_image" =>
        /\ images.crop.left >= 0
        /\ images.crop.top >= 0
        /\ images.crop.right <= images.page[1]
        /\ images.crop.bottom <= images.page[2]
        /\ images.crop.width >= 1
        /\ images.crop.height >= 1
        /\ images.image.raised = ""
        /\ images.image.size = <<images.crop.width, images.crop.height>>

(***************************************************************************)
(* ProjectRuntime beside the services.  The runtime and the pair           *)
(* SegmentEditor / SegmentNavigator are given the same segments, Edits     *)
(* and NavigationState; every operation is made on both, each on its own   *)
(* dicts and its own store.                                                *)
(***************************************************************************)
\* collections with words under a line, an orphan word, lines alone and words alone
BesideGraphs == {GraphEditor, GraphOrphan, GraphLinesOnly, GraphWordsOnly}

\* the texts both are given: without a token, with fewer tokens than a line
\* has words, with as many, and with more between surrounding whitespace
BesideTexts ==
    {<<>>, <<"alpha">>, <<"alpha", " ", "beta">>,
     <<" ", "alpha", " ", "beta", " ", "gamma", "\t">>}

\* the runtime as its constructor leaves it
BesideStart ==
    [op |-> "init", edits |-> edits, stored_edits |-> stored_edits,
     stored_master |-> stored_master, state |-> state, stored_state |-> stored_state,
     ret_id |-> "", ret_text |-> <<>>, status |-> NoStatus, error |-> ""]

\* what an operation of the runtime returned
Returned(op, ret_id, ret_text, status, error) ==
    [runtime EXCEPT !.op = op, !.ret_id = ret_id, !.ret_text = ret_text,
                    !.status = status, !.error = error]

InitBeside ==
    /\ \E g \in BesideGraphs : Load(g, NoState)
    /\ inflight = NoRequests
    /\ consensus = NoConsensus
    /\ build = NoBuild
    /\ images = NoImages
    /\ runtime = BesideStart
    /\ last = Idle

\* save(segment_id, view, text) of the editor and of the runtime
BesideSave ==
    /\ nops < MaxOps
    /\ nops' = nops + 1
    /\ \E segment_id \in SegmentIds, view \in Views, text \in BesideTexts :
        LET r == save(edits, segment_id, view, text)
            m == compose_master_text(r.edits)
            pr == ProjectRuntime_save(runtime.edits, segment_id, view, text)
            pm == ProjectRuntime_compose_master_text(pr.edits)
        IN /\ edits' = r.edits
           /\ stored_edits' = IF r.raised THEN stored_edits ELSE r.edits
           /\ stored_master' = IF r.raised \/ m.raised THEN stored_master ELSE m.value
           /\ last' = Op("save", segment_id, view, text, "", "", <<>>, r.raised \/ m.raised)
           /\ saved_ids' = IF r.raised \/ m.raised THEN saved_ids ELSE saved_ids \cup {segment_id}
           /\ runtime' = [Returned("save", "", <<>>, NoStatus,
                                   IF pr.error # "" THEN pr.error ELSE pm.error)
                             EXCEPT !.edits = pr.edits,
                                    !.stored_edits = IF pr.error # "" THEN @ ELSE pr.edits,
                                    !.stored_master = IF pr.error # "" \/ pm.error # ""
                                                      THEN @ ELSE pm.value]
    /\ UNCHANGED <<graph, state, stored_state, inflight, consensus, build, images>>

\* get_text(segment_id) of the editor and of the runtime
BesideGetText ==
    /\ nops < MaxOps
    /\ nops' = nops + 1
    /\ \E segment_id \in SegmentIds :
        LET r == get_text(edits, segment_id)
            pr == ProjectRuntime_get_text(runtime.edits, segment_id)
        IN /\ last' = Op("get_text", segment_id, "", <<>>, "", "", r.value, r.raised)
           /\ runtime' = Returned("get_text", "", pr.value, NoStatus, pr.error)
    /\ UNCHANGED <<graph, edits, stored_edits, stored_master, state, stored_state, saved_ids,
                   inflight, consensus, build, images>>

\* navigate(view, current_id, action) of the navigator and of the runtime
BesideNavigate ==
    /\ nops < MaxOps
    /\ nops' = nops + 1
    /\ \E view \in Views, current_id \in SegmentIds, action \in Actions :
        /\ last' = Op("navigate", current_id, view, <<>>, action,
                      navigate(edits, view, current_id, action), <<>>, FALSE)
        /\ runtime' = Returned("navigate",
                               ProjectRuntime_navigate(runtime.edits, view, current_id, action),
                               <<>>, NoStatus, "")
    /\ UNCHANGED <<graph, edits, stored_edits, stored_master, state, stored_state, saved_ids,
                   inflight, consensus, build, images>>

\* switch_view(current_segment, target_view) of the navigator and of the runtime
BesideSwitchView ==
    /\ nops < MaxOps
    /\ nops' = nops + 1
    /\ \E current_segment \in SegmentIds, target_view \in Views :
        LET target == switch_view(current_segment, target_view)
            ptarget == ProjectRuntime_switch_view(current_segment, target_view)
        IN /\ state' = NavState(target_view, target)
           /\ stored_state' = NavState(target_view, target)
           /\ last' = Op("switch_view", current_segment, target_view, <<>>, "", target, <<>>, FALSE)
           /\ runtime' = [Returned("switch_view", ptarget, <<>>, NoStatus, "")
                             EXCEPT !.state = ProjectRuntime_persist_state(target_view, ptarget),
                                    !.stored_state = ProjectRuntime_persist_state(target_view, ptarget)]
    /\ UNCHANGED <<graph, edits, stored_edits, stored_master, saved_ids,
                   inflight, consensus, build, images>>

\* navigation_status(segment_id, view) of the navigator and of the runtime
BesideNavigationStatus ==
    /\ nops < MaxOps
    /\ nops' = nops + 1
    /\ \E segment_id \in SegmentIds, view \in Views \cup {"page"} :
        /\ last' = [Op("navigation_status", segment_id, view, <<>>, "", "", <<>>, FALSE)
                        EXCEPT !.status = navigation_status(edits, segment_id, view)]
        /\ runtime' = Returned("navigation_status", "", <<>>,
                               ProjectRuntime_navigation_status(runtime.edits, segment_id, view), "")
    /\ UNCHANGED <<graph, edits, stored_edits, stored_master, state, stored_state, saved_ids,
                   inflight, consensus, build, images>>

NextBeside ==
    BesideSave \/ BesideGetText \/ BesideNavigate \/ BesideSwitchView \/ BesideNavigationStatus

SpecBeside == InitBeside /\ [][NextBeside]_vars

\* C30: after every operation made on both from the same start, the runtime
\* and the services hold the same Edits and NavigationState, have written the
\* same edits, state and master text, and returned the same: the same id, the
\* same text, the same flags, and an error on one side exactly when on the other
C30_RuntimeMatchesServices ==
    runtime.op # "none" =>
        /\ runtime.op = last.op
        /\ runtime.edits = edits
        /\ runtime.state = state
        /\ runtime.stored_edits = stored_edits
        /\ runtime.stored_state = stored_state
        /\ runtime.stored_master = stored_master
        /\ runtime.ret_id = last.ret_id
        /\ runtime.ret_text = last.ret_text
        /\ runtime.status = last.status
        /\ (runtime.error # "") = last.raised

\* after a save both moved on to another unresolved conflict
C30_Witness ==
    /\ runtime.op = "navigate"
    /\ last.op = "navigate"
    /\ last.action = "next_issue"
    /\ last.ret_id # last.segment_id
    /\ runtime.ret_id = last.ret_id
    /\ edits # EmptyDict
    /\ runtime.edits = edits
    /\ runtime.stored_master = stored_master
    /\ stored_master # build_master(segments)

====
